---- MODULE Spec2Model ----
(***************************************************************************)
(* Recommendation engine of the fixed-income portfolio dashboard.          *)
(*                                                                         *)
(* generateRecommendations (src/app/page.tsx) is a function of the user,   *)
(* the asset list, the liquidity events and the clock.  The state holds    *)
(* one invocation: its inputs, the clock value it reads, and the list it   *)
(* returns.  getMarketValue and calculateYTM (lib/utils) are also applied  *)
(* on their own to a single asset.                                         *)
(*                                                                         *)
(* Representation.                                                         *)
(*  - Time is counted in ticks, TicksPerDay to a day; a Date object is     *)
(*    [ok, y, m, d, t] (t ticks into the day) or InvalidDate.  Date-only   *)
(*    strings parse to midnight UTC and the runtime's zone is taken to be  *)
(*    UTC, so local and UTC calendar fields agree.                         *)
(*  - Money amounts are integers.  A quotient the code computes in         *)
(*    floating point is an exact rational Fin(n, d), or NaN, or an         *)
(*    infinity, with the IEEE rules for x/0, 0/0 and NaN comparisons.      *)
(*  - A formatted string is the record of the values it interpolates       *)
(*    (formatCurrency(a, c) is [amount |-> a, currency |-> c]); a          *)
(*    "yyyy-MM" key is the month index 12*y + m-1, which orders as the     *)
(*    strings do.                                                          *)
(***************************************************************************)
EXTENDS Integers, Sequences, FiniteSets, TLC

VARIABLES
  user,             \* generateRecommendations' user argument (NoUser: absent)
  assets,           \* its assets argument
  events,           \* its events argument
  today,            \* the value of new Date() during the invocation
  recommendations,  \* the returned list
  runtime,          \* how the runtime parses a non-ISO date string
  raised,           \* whether the invocation ended in an exception
  pc,               \* "ready" before the invocation, "done" after it;
                    \* "util" when a utility function is applied on its own
  fnArg,            \* the asset a utility function is applied to on its own
  fnResult,         \* [fn, value] of that application, NoResult before it
  formData,         \* the asset form's state (useAssetForm)
  formErrors        \* the fields validateForm last reported

vars == <<user, assets, events, today, runtime, recommendations, raised, pc,
          fnArg, fnResult, formData, formErrors>>

----------------------------------------------------------------------------
(* Bounds of the model *)

MaxAssets == 3
MaxEvents == 2
TicksPerDay == 4
MaxLadderAssets == 7

----------------------------------------------------------------------------
(* Numbers: IEEE doubles restricted to exact rationals, NaN and infinities *)

NaN == [k |-> "nan"]
Inf(s) == [k |-> "inf", s |-> s]

Abs(x) == IF x < 0 THEN -x ELSE x

RECURSIVE Gcd(_, _)
Gcd(a, b) == IF b = 0 THEN a ELSE Gcd(b, a % b)

Fin(n, d) ==
  LET g == Gcd(Abs(n), d)
  IN [k |-> "fin", n |-> n \div g, d |-> d \div g]

Num(i) == [k |-> "fin", n |-> i, d |-> 1]

Sign(x) == IF x.k = "inf" THEN x.s
           ELSE IF x.n > 0 THEN 1 ELSE IF x.n < 0 THEN -1 ELSE 0

FAdd(x, y) ==
  IF x.k = "nan" \/ y.k = "nan" THEN NaN
  ELSE IF x.k = "inf" /\ y.k = "inf" THEN (IF x.s = y.s THEN x ELSE NaN)
  ELSE IF x.k = "inf" THEN x
  ELSE IF y.k = "inf" THEN y
  ELSE LET g == Gcd(x.d, y.d)
       IN Fin(x.n * (y.d \div g) + y.n * (x.d \div g), (x.d \div g) * y.d)

FMul(x, y) ==
  IF x.k = "nan" \/ y.k = "nan" THEN NaN
  ELSE IF x.k = "inf" \/ y.k = "inf"
       THEN (IF Sign(x) * Sign(y) = 0 THEN NaN ELSE Inf(Sign(x) * Sign(y)))
  ELSE LET g == Gcd(Abs(x.n), y.d)
           h == Gcd(Abs(y.n), x.d)
       IN Fin((x.n \div g) * (y.n \div h), (x.d \div h) * (y.d \div g))

FDiv(x, y) ==
  IF x.k = "nan" \/ y.k = "nan" THEN NaN
  ELSE IF x.k = "inf" THEN (IF y.k = "inf" THEN NaN
                            ELSE Inf(x.s * (IF Sign(y) < 0 THEN -1 ELSE 1)))
  ELSE IF y.k = "inf" THEN Num(0)
  ELSE IF y.n = 0 THEN (IF x.n = 0 THEN NaN ELSE Inf(Sign(x)))
  ELSE LET g == Gcd(Abs(x.n), Abs(y.n))
           h == Gcd(x.d, y.d)
           n == (x.n \div g) * (y.d \div h)
           d == (x.d \div h) * (Abs(y.n) \div g)
       IN IF y.n > 0 THEN Fin(n, d) ELSE Fin(-n, d)

\* x < y; false when either side is NaN
FLt(x, y) ==
  IF x.k = "nan" \/ y.k = "nan" THEN FALSE
  ELSE IF x.k = "inf" THEN x.s < 0 /\ ~(y.k = "inf" /\ y.s < 0)
  ELSE IF y.k = "inf" THEN y.s > 0
  ELSE x.n * y.d < y.n * x.d

FGt(x, y) == FLt(y, x)

\* value || 0 : NaN and 0 are falsy
OrZero(x) == IF x.k = "nan" THEN Num(0) ELSE x

\* Math.round of the rational n/d, d > 0: the nearest integer, halves upward
MathRound(n, d) == (2 * n + d) \div (2 * d)

----------------------------------------------------------------------------
(* Calendar and Date objects *)

IsLeapYear(y) == (y % 4 = 0 /\ y % 100 # 0) \/ y % 400 = 0

DaysInMonth(y, m) ==
  IF m = 2 THEN (IF IsLeapYear(y) THEN 29 ELSE 28)
  ELSE IF m \in {4, 6, 9, 11} THEN 30 ELSE 31

\* days from 1970-01-01 to y-m-d in the proleptic Gregorian calendar
DayNumber(y, m, d) ==
  LET yy  == IF m <= 2 THEN y - 1 ELSE y
      era == yy \div 400
      yoe == yy - era * 400
      mp  == (m + 9) % 12
      doy == (153 * mp + 2) \div 5 + d - 1
      doe == yoe * 365 + yoe \div 4 - yoe \div 100 + doy
  IN era * 146097 + doe - 719468

InvalidDate == [ok |-> FALSE]
DateOf(y, m, d, t) == [ok |-> TRUE, y |-> y, m |-> m, d |-> d, t |-> t]

\* a date field of a record: a "yyyy-MM-dd" string, null, or an unparsable string
DateStr(y, m, d) == [k |-> "str", y |-> y, m |-> m, d |-> d]
NullDate == [k |-> "null"]
BadDateStr == [k |-> "bad"]

\* new Date(value): a date-only string is midnight UTC, null is the epoch
NewDate(s) ==
  IF s.k = "str" THEN DateOf(s.y, s.m, s.d, 0)
  ELSE IF s.k = "null" THEN DateOf(1970, 1, 1, 0)
  ELSE InvalidDate

\* !value for a date field: null and the empty string are falsy
IsFalsyDate(s) == s.k = "null"

\* Date.getTime(), in ticks; only for valid dates
getTime(dt) == DayNumber(dt.y, dt.m, dt.d) * TicksPerDay + dt.t

\* a < b and a <= b on Date objects (false when either is invalid)
DateLt(a, b) == a.ok /\ b.ok /\ getTime(a) < getTime(b)
DateLe(a, b) == a.ok /\ b.ok /\ getTime(a) <= getTime(b)

\* format(date, "yyyy-MM") as the month index
MonthKey(dt) == dt.y * 12 + dt.m - 1

\* format(date, "MMM yyyy")
MonthLabel(dt) == [mon |-> dt.m, year |-> dt.y]

\* date-fns addMonths: the same day of the target month, or its last day
addMonths(dt, n) ==
  LET mk  == MonthKey(dt) + n
      ty  == mk \div 12
      tm  == (mk % 12) + 1
      dim == DaysInMonth(ty, tm)
  IN DateOf(ty, tm, IF dt.d >= dim THEN dim ELSE dt.d, dt.t)

\* Date.setMonth keeps the day of month and overflows into the next month:
\* the time of day `day` of month index mk, in ticks
OverflowTime(mk, day, t) ==
  (DayNumber(mk \div 12, (mk % 12) + 1, 1) + day - 1) * TicksPerDay + t

\* date-fns differenceInMonths(left, right) for left >= right: the calendar
\* month difference, less one when the last month is not full
differenceInMonths(left, right) ==
  LET diff    == MonthKey(left) - MonthKey(right)
      febEnd  == left.m = 2 /\ left.d > 27
      \* setDate(30) at the end of February rolls into March
      lk      == IF febEnd THEN MonthKey(left) + 1 ELSE MonthKey(left)
      ld      == IF febEnd THEN 30 - DaysInMonth(left.y, 2) ELSE left.d
      moved   == OverflowTime(lk - diff, ld, left.t)
      lastDay == left.d = DaysInMonth(left.y, left.m)
      notFull == IF lastDay /\ diff = 1 /\ getTime(left) > getTime(right)
                 THEN FALSE
                 ELSE moved < getTime(right)
  IN IF diff < 1 THEN 0
     ELSE IF notFull THEN diff - 1 ELSE diff

----------------------------------------------------------------------------
(* Records and lib/utils *)

NoUser == [present |-> FALSE]

\* an optional current_price: absent (undefined or null) or a number
NoPrice == <<>>
Price(v) == <<v>>

\* value || fallback for strings
OrDefault(str, fallback) == IF str = "" THEN fallback ELSE str

AssetTypes ==
  {"governmentBond", "corporateBond", "municipalBond", "CD", "treasuryBill",
   "treasuryNote", "treasuryBond", "moneyMarket", "gilts", "bunds", "OATs",
   "BTPs", "structuredNote", "inflationLinkedBond", "subordinatedBond",
   "perpetualBond", "savingsBond", "other"}

\* Intl.NumberFormat with no fraction digits, on whole amounts
formatCurrency(amount, currencyCode) ==
  [amount |-> amount, currency |-> currencyCode]

\* a current_price of 0 taken as a price
getMarketValue_ZeroIsPrice(asset) ==
  IF asset.current_price # NoPrice /\ asset.current_price[1] >= 0
  THEN asset.current_price[1]
  ELSE asset.purchase_price

getMarketValue(asset) ==
  IF asset.current_price # NoPrice /\ asset.current_price[1] > 0
  THEN asset.current_price[1]
  ELSE asset.purchase_price

RECURSIVE SumMarketValue(_)
SumMarketValue(list) ==
  IF list = <<>> THEN 0
  ELSE getMarketValue(Head(list)) + SumMarketValue(Tail(list))

getTotalMarketValue(list) ==
  IF Len(list) = 0 THEN 0 ELSE SumMarketValue(list)

\* ((faceValue / purchasePrice) ** (1 / years) - 1) * 100; the power is
\* evaluated where it is rational and left unevaluated elsewhere
ZeroCouponYield(faceValue, purchasePrice, years) ==
  IF purchasePrice = 0
  THEN (IF faceValue = 0 THEN NaN ELSE Inf(1))
  ELSE IF faceValue = purchasePrice THEN Num(0)
  ELSE IF faceValue = 0 THEN Num(-100)
  ELSE IF years = Num(1)
  THEN FMul(FAdd(Fin(faceValue, purchasePrice), Num(-1)), Num(100))
  ELSE [k |-> "pow", base |-> Fin(faceValue, purchasePrice), years |-> years]

\* the perpetual-bond test left out
calculateYTM_NoPerpetualCase(asset, now) ==
  IF IsFalsyDate(asset.maturity_date)
  THEN Num(asset.interest_rate)
  ELSE
    LET maturityDate == NewDate(asset.maturity_date) IN
    IF ~maturityDate.ok THEN Num(asset.interest_rate)
    ELSE
      LET elapsed == Fin(getTime(maturityDate) - getTime(now), TicksPerDay * 365)
          yearsToMaturity == IF FLt(elapsed, Fin(1, 100)) THEN Fin(1, 100)
                             ELSE elapsed
      IN IF asset.interest_rate = 0
         THEN ZeroCouponYield(asset.face_value, asset.purchase_price,
                              yearsToMaturity)
         ELSE FMul(FDiv(FAdd(Fin(asset.face_value * asset.interest_rate, 100),
                             FDiv(Num(asset.face_value - asset.purchase_price),
                                  yearsToMaturity)),
                        Fin(asset.face_value + asset.purchase_price, 2)),
                   Num(100))

calculateYTM(asset, now) ==
  IF asset.type = "perpetualBond" \/ IsFalsyDate(asset.maturity_date)
  THEN Num(asset.interest_rate)
  ELSE
    LET maturityDate == NewDate(asset.maturity_date) IN
    IF ~maturityDate.ok THEN Num(asset.interest_rate)
    ELSE
      LET elapsed == Fin(getTime(maturityDate) - getTime(now), TicksPerDay * 365)
          yearsToMaturity == IF FLt(elapsed, Fin(1, 100)) THEN Fin(1, 100)
                             ELSE elapsed
          purchasePrice == asset.purchase_price
          faceValue == asset.face_value
      IN IF asset.interest_rate = 0
         THEN ZeroCouponYield(faceValue, purchasePrice, yearsToMaturity)
         ELSE
           LET annualCoupon == Fin(faceValue * asset.interest_rate, 100)
               priceGain == FDiv(Num(faceValue - purchasePrice), yearsToMaturity)
               averageInvestment == Fin(faceValue + purchasePrice, 2)
           IN FMul(FDiv(FAdd(annualCoupon, priceGain), averageInvestment),
                   Num(100))

----------------------------------------------------------------------------
(* 1. Rollover *)

\* the static rate table, in tenths of a percent
approximateRates ==
  [eurozone |->
     [governmentBond |-> [short |-> 28, medium |-> 31, long |-> 35],
      corporateBond  |-> [short |-> 32, medium |-> 37, long |-> 41],
      CD             |-> [short |-> 25, medium |-> 29, long |-> 33],
      treasuryBill   |-> [short |-> 27, medium |-> 30, long |-> 34],
      moneyMarket    |-> [short |-> 24, medium |-> 0, long |-> 0]],
   uk |->
     [governmentBond |-> [short |-> 39, medium |-> 42, long |-> 45],
      corporateBond  |-> [short |-> 43, medium |-> 47, long |-> 51],
      CD             |-> [short |-> 37, medium |-> 40, long |-> 43],
      treasuryBill   |-> [short |-> 38, medium |-> 41, long |-> 44],
      moneyMarket    |-> [short |-> 36, medium |-> 0, long |-> 0]],
   us |->
     [governmentBond |-> [short |-> 41, medium |-> 45, long |-> 48],
      corporateBond  |-> [short |-> 45, medium |-> 50, long |-> 54],
      CD             |-> [short |-> 40, medium |-> 43, long |-> 46],
      treasuryBill   |-> [short |-> 39, medium |-> 42, long |-> 44],
      moneyMarket    |-> [short |-> 38, medium |-> 0, long |-> 0]],
   global |->
     [governmentBond |-> [short |-> 35, medium |-> 39, long |-> 42],
      corporateBond  |-> [short |-> 40, medium |-> 45, long |-> 48],
      CD             |-> [short |-> 34, medium |-> 37, long |-> 40],
      treasuryBill   |-> [short |-> 35, medium |-> 38, long |-> 41],
      moneyMarket    |-> [short |-> 33, medium |-> 0, long |-> 0]]]

getApproximateRate(region, assetType, term, ratesDb) ==
  IF region \in DOMAIN ratesDb /\ assetType \in DOMAIN ratesDb[region]
     /\ term \in DOMAIN ratesDb[region][assetType]
  THEN ratesDb[region][assetType][term]
  ELSE IF "global" \in DOMAIN ratesDb
  THEN ratesDb["global"]["governmentBond"][term]
  ELSE IF term = "short" THEN 30 ELSE IF term = "medium" THEN 35 ELSE 40

\* asset.type.includes('Bond') and asset.type.includes('treasury')
IncludesBond(type) ==
  type \in {"governmentBond", "corporateBond", "municipalBond", "treasuryBond",
            "inflationLinkedBond", "subordinatedBond", "perpetualBond",
            "savingsBond"}
IncludesTreasury(type) == type \in {"treasuryBill", "treasuryNote", "treasuryBond"}

\* (maturityDate.getTime() - today.getTime()) / (1000 * 60 * 60 * 24), in ticks
TicksToMaturity(asset, now) ==
  getTime(NewDate(asset.maturity_date)) - getTime(now)

\* the 90-day limit taken as exclusive
IsSoonMaturing_Exclusive(asset, now) ==
  /\ NewDate(asset.maturity_date).ok
  /\ TicksToMaturity(asset, now) > 0
  /\ TicksToMaturity(asset, now) < 90 * TicksPerDay

IsSoonMaturing(asset, now) ==
  /\ NewDate(asset.maturity_date).ok
  /\ TicksToMaturity(asset, now) > 0
  /\ TicksToMaturity(asset, now) <= 90 * TicksPerDay

soonMaturingAssets(list, now) ==
  SelectSeq(list, LAMBDA asset : IsSoonMaturing(asset, now))

IsUpcomingNeed(event, asset, now) ==
  LET eventDate == NewDate(event.date)
      nextSixMonths == addMonths(now, 6)
  IN /\ DateLt(now, eventDate)
     /\ DateLe(eventDate, nextSixMonths)
     /\ event.currency = asset.currency

RECURSIVE liquidityNeeds(_, _, _)
liquidityNeeds(evs, asset, now) ==
  IF evs = <<>> THEN 0
  ELSE (IF IsUpcomingNeed(Head(evs), asset, now) THEN Head(evs).amount ELSE 0)
       + liquidityNeeds(Tail(evs), asset, now)

TermOf(u) ==
  IF u.risk_tolerance = "conservative" THEN "short"
  ELSE IF u.risk_tolerance = "moderate" THEN "medium"
  ELSE IF u.risk_tolerance = "aggressive" THEN "long"
  ELSE "none"

\* the type keeps the asset's own name when the table lacks it
RateLookups_NoIssuerFallback(u, asset) ==
  LET userRegion == OrDefault(u.country, "eurozone")
      firstType == IF IncludesBond(asset.type) THEN "governmentBond"
                   ELSE IF IncludesTreasury(asset.type) THEN "treasuryBill"
                   ELSE asset.type
      validRegion == IF asset.region \in DOMAIN approximateRates
                     THEN asset.region ELSE "global"
      term == TermOf(u)
  IN (IF term = "none" THEN <<>>
      ELSE <<[region |-> validRegion, type |-> firstType, term |-> term]>>)
     \o (IF userRegion # asset.region /\ term \in {"medium", "long"}
         THEN <<[region |-> IF userRegion = "eurozone" THEN "uk" ELSE "eurozone",
                 type |-> IF asset.issuer_type = "corporate" THEN "corporateBond"
                          ELSE "governmentBond",
                 term |-> term]>>
         ELSE <<>>)

\* the arguments of the calls of getApproximateRate made for one asset, in
\* the order of the calls
RateLookups(u, asset) ==
  LET userRegion == OrDefault(u.country, "eurozone")
      firstType == IF IncludesBond(asset.type) THEN "governmentBond"
                   ELSE IF IncludesTreasury(asset.type) THEN "treasuryBill"
                   ELSE asset.type
      validRegion == IF asset.region \in DOMAIN approximateRates
                     THEN asset.region ELSE "global"
      assetTypeForRate ==
        IF firstType \in DOMAIN approximateRates[validRegion] THEN firstType
        ELSE IF asset.issuer_type = "corporate" THEN "corporateBond"
        ELSE "governmentBond"
      term == TermOf(u)
  IN (IF term = "none" THEN <<>>
      ELSE <<[region |-> validRegion, type |-> assetTypeForRate, term |-> term]>>)
     \o (IF userRegion # asset.region /\ term \in {"medium", "long"}
         THEN <<[region |-> IF userRegion = "eurozone" THEN "uk" ELSE "eurozone",
                 type |-> IF asset.issuer_type = "corporate" THEN "corporateBond"
                          ELSE "governmentBond",
                 term |-> term]>>
         ELSE <<>>)

\* the condition under which getApproximateRate returns the entry itself
HasExactEntry(region, assetType, term, ratesDb) ==
  /\ region \in DOMAIN ratesDb
  /\ assetType \in DOMAIN ratesDb[region]
  /\ term \in DOMAIN ratesDb[region][assetType]

\* the cross-region suggestion appended whatever the risk tolerance
ReplacementOptions_CrossForAnyRisk(u, asset) ==
  LET userRegion == OrDefault(u.country, "eurozone")
      firstType == IF IncludesBond(asset.type) THEN "governmentBond"
                   ELSE IF IncludesTreasury(asset.type) THEN "treasuryBill"
                   ELSE asset.type
      validRegion == IF asset.region \in DOMAIN approximateRates
                     THEN asset.region ELSE "global"
      assetTypeForRate ==
        IF firstType \in DOMAIN approximateRates[validRegion] THEN firstType
        ELSE IF asset.issuer_type = "corporate" THEN "corporateBond"
        ELSE "governmentBond"
      term == TermOf(u)
      consider ==
        IF term = "none" THEN <<>>
        ELSE <<[kind |-> "consider", term |-> term, type |-> assetTypeForRate,
                rate |-> getApproximateRate(validRegion, assetTypeForRate, term,
                                            approximateRates)]>>
      alternateRegion == IF userRegion = "eurozone" THEN "uk" ELSE "eurozone"
      alternateType == IF asset.issuer_type = "corporate" THEN "corporateBond"
                       ELSE "governmentBond"
      cross ==
        IF userRegion # asset.region
        THEN <<[kind |-> "crossRegion", region |-> alternateRegion,
                type |-> alternateType,
                rate |-> getApproximateRate(alternateRegion, alternateType,
                                            IF term = "medium" THEN "medium"
                                            ELSE "long",
                                            approximateRates)]>>
        ELSE <<>>
  IN consider \o cross

ReplacementOptions(u, asset) ==
  LET userRegion == OrDefault(u.country, "eurozone")
      firstType == IF IncludesBond(asset.type) THEN "governmentBond"
                   ELSE IF IncludesTreasury(asset.type) THEN "treasuryBill"
                   ELSE asset.type
      validRegion == IF asset.region \in DOMAIN approximateRates
                     THEN asset.region ELSE "global"
      assetTypeForRate ==
        IF firstType \in DOMAIN approximateRates[validRegion] THEN firstType
        ELSE IF asset.issuer_type = "corporate" THEN "corporateBond"
        ELSE "governmentBond"
      term == TermOf(u)
      consider ==
        IF term = "none" THEN <<>>
        ELSE <<[kind |-> "consider", term |-> term, type |-> assetTypeForRate,
                rate |-> getApproximateRate(validRegion, assetTypeForRate, term,
                                            approximateRates)]>>
      alternateRegion == IF userRegion = "eurozone" THEN "uk" ELSE "eurozone"
      alternateType == IF asset.issuer_type = "corporate" THEN "corporateBond"
                       ELSE "governmentBond"
      cross ==
        IF userRegion # asset.region /\ term \in {"medium", "long"}
        THEN <<[kind |-> "crossRegion", region |-> alternateRegion,
                type |-> alternateType,
                rate |-> getApproximateRate(alternateRegion, alternateType, term,
                                            approximateRates)]>>
        ELSE <<>>
  IN consider \o cross

\* the covered branch taken only when the market value exceeds the needs
rolloverOptions_StrictCover(u, asset, evs, now) ==
  LET needs == liquidityNeeds(evs, asset, now)
      assetMarketValue == getMarketValue(asset)
  IN IF needs > 0 /\ assetMarketValue > needs
     THEN <<[kind |-> "keepLiquid", value |-> formatCurrency(needs, asset.currency)],
            [kind |-> "reinvest",
             value |-> formatCurrency(assetMarketValue - needs, asset.currency)]>>
     ELSE ReplacementOptions(u, asset)

rolloverOptions(u, asset, evs, now) ==
  LET needs == liquidityNeeds(evs, asset, now)
      assetMarketValue == getMarketValue(asset)
  IN IF needs > 0 /\ assetMarketValue >= needs
     THEN <<[kind |-> "keepLiquid", value |-> formatCurrency(needs, asset.currency)]>>
          \o (IF assetMarketValue > needs
              THEN <<[kind |-> "reinvest",
                      value |-> formatCurrency(assetMarketValue - needs,
                                               asset.currency)]>>
              ELSE <<>>)
     ELSE ReplacementOptions(u, asset)

RolloverRecommendation(u, asset, evs, now) ==
  [category |-> "rollover",
   title |-> [name |-> asset.name,
              days |-> MathRound(TicksToMaturity(asset, now), TicksPerDay)],
   description |-> [value |-> formatCurrency(getMarketValue(asset), asset.currency),
                    type |-> asset.type],
   actionItems |-> rolloverOptions(u, asset, evs, now),
   region |-> asset.region]

RolloverRecommendations(u, list, evs, now) ==
  LET soon == soonMaturingAssets(list, now)
  IN [i \in 1..Len(soon) |-> RolloverRecommendation(u, soon[i], evs, now)]

----------------------------------------------------------------------------
(* 2. Diversification, regional and currency concentration *)

GroupNames == <<"government", "corporate", "municipal", "savings", "other">>

assetGroups ==
  [government |-> {"governmentBond", "treasuryBill", "treasuryNote",
                   "treasuryBond", "gilts", "bunds", "OATs", "BTPs",
                   "inflationLinkedBond"},
   corporate  |-> {"corporateBond", "structuredNote", "subordinatedBond",
                   "perpetualBond"},
   municipal  |-> {"municipalBond"},
   savings    |-> {"CD", "savingsBond", "moneyMarket"},
   other      |-> {"other"}]

GroupOf(type) ==
  IF \E i \in 1..Len(GroupNames) : type \in assetGroups[GroupNames[i]]
  THEN GroupNames[CHOOSE i \in 1..Len(GroupNames) :
                    type \in assetGroups[GroupNames[i]]]
  ELSE "other"

RECURSIVE SumSeq(_)
SumSeq(ns) == IF ns = <<>> THEN 0 ELSE Head(ns) + SumSeq(Tail(ns))

\* the market value accumulated under one key: hits[i] tells whether asset i
\* carries the key
SumWhere(list, hits) ==
  SumSeq([i \in 1..Len(list) |->
            IF hits[i] THEN getMarketValue(list[i]) ELSE 0])

\* (value / totalPortfolioValue) * 100
Percentage(value, totalPortfolioValue) ==
  FMul(FDiv(Num(value), Num(totalPortfolioValue)), Num(100))

assetTypeDistribution(list, group) ==
  Percentage(SumWhere(list, [i \in 1..Len(list) |-> GroupOf(list[i].type) = group]),
             getTotalMarketValue(list))

regionDistribution(list, region) ==
  Percentage(SumWhere(list, [i \in 1..Len(list) |-> list[i].region = region]),
             getTotalMarketValue(list))

currencyDistribution(list, currency) ==
  Percentage(SumWhere(list, [i \in 1..Len(list) |-> list[i].currency = currency]),
             getTotalMarketValue(list))

idealDistribution(risk_tolerance) ==
  IF risk_tolerance = "conservative"
  THEN [government |-> <<40, 70>>, corporate |-> <<10, 30>>,
        municipal |-> <<0, 20>>, savings |-> <<10, 30>>, other |-> <<0, 10>>]
  ELSE IF risk_tolerance = "moderate"
  THEN [government |-> <<30, 50>>, corporate |-> <<20, 40>>,
        municipal |-> <<0, 30>>, savings |-> <<5, 20>>, other |-> <<0, 15>>]
  ELSE [government |-> <<15, 40>>, corporate |-> <<30, 60>>,
        municipal |-> <<0, 40>>, savings |-> <<0, 15>>, other |-> <<0, 20>>]

Imbalance(u, list, group) ==
  LET range == idealDistribution(u.risk_tolerance)[group]
      actual == OrZero(assetTypeDistribution(list, group))
  IN IF FLt(actual, Num(range[1]))
     THEN <<[kind |-> "increase", group |-> group, actual |-> actual,
             min |-> range[1], max |-> range[2]]>>
     ELSE IF FGt(actual, Num(range[2]))
     THEN <<[kind |-> "reduce", group |-> group, actual |-> actual,
             min |-> range[1], max |-> range[2]]>>
     ELSE <<>>

RECURSIVE imbalancesFrom(_, _, _)
imbalancesFrom(u, list, i) ==
  IF i > Len(GroupNames) THEN <<>>
  ELSE Imbalance(u, list, GroupNames[i]) \o imbalancesFrom(u, list, i + 1)

imbalances(u, list) == imbalancesFrom(u, list, 1)

\* the keys of a distribution object, in insertion order
RECURSIVE Distinct(_, _)
Distinct(keys, seen) ==
  IF keys = <<>> THEN <<>>
  ELSE IF Head(keys) \in seen THEN Distinct(Tail(keys), seen)
  ELSE <<Head(keys)>> \o Distinct(Tail(keys), seen \cup {Head(keys)})

regionKeys(list) == Distinct([i \in 1..Len(list) |-> list[i].region], {})
currencyKeys(list) == Distinct([i \in 1..Len(list) |-> list[i].currency], {})

\* Object.entries(distribution).sort((a, b) => b[1] - a[1])[0]: the sort is
\* stable, so the first of the largest entries comes first; the index of
\* that entry among shares[i..], given the best index so far
RECURSIVE DominantIndex(_, _, _)
DominantIndex(shares, i, best) ==
  IF i > Len(shares) THEN best
  ELSE DominantIndex(shares, i + 1,
                     IF FGt(shares[i], shares[best]) THEN i ELSE best)

dominantRegion(list) ==
  LET keys == regionKeys(list)
      shares == [i \in 1..Len(keys) |-> regionDistribution(list, keys[i])]
  IN keys[DominantIndex(shares, 2, 1)]

dominantCurrency(list) ==
  LET keys == currencyKeys(list)
      shares == [i \in 1..Len(keys) |-> currencyDistribution(list, keys[i])]
  IN keys[DominantIndex(shares, 2, 1)]

regionalSuggestions(list) ==
  LET region == dominantRegion(list)
  IN (IF region \in {"eurozone", "uk", "us"}
      THEN <<[kind |-> "addRegions", from |-> region]>> ELSE <<>>)
     \o <<[kind |-> "represents", key |-> region,
           share |-> regionDistribution(list, region)]>>

currencySuggestions(list) ==
  LET currency == dominantCurrency(list)
  IN (IF currency \in {"EUR", "GBP", "USD"}
      THEN <<[kind |-> "addCurrencies", from |-> currency]>> ELSE <<>>)
     \o <<[kind |-> "represents", key |-> currency,
           share |-> currencyDistribution(list, currency)]>>

\* the recommendation of the allocation check, when there are imbalances
BalanceRecommendation(u, list) ==
  IF Len(imbalances(u, list)) > 0
  THEN <<[category |-> "diversification",
          title |-> [text |-> "Portfolio Balance Optimization"],
          description |-> [risk |-> u.risk_tolerance],
          actionItems |-> imbalances(u, list)]>>
  ELSE <<>>

\* the regional check with the test dominantRegion[1] >= 70
RegionalRecommendation_AtLeast(list) ==
  IF \/ FGt(regionDistribution(list, dominantRegion(list)), Num(70))
     \/ regionDistribution(list, dominantRegion(list)) = Num(70)
  THEN <<[category |-> "regional",
          title |-> [text |-> "Geographical Diversification"],
          description |-> [text |-> "Your portfolio is highly concentrated in one region:"],
          actionItems |-> regionalSuggestions(list)]>>
  ELSE <<>>

\* 2.1 regional concentration: dominantRegion[1] > 70
RegionalRecommendation(list) ==
  IF FGt(regionDistribution(list, dominantRegion(list)), Num(70))
  THEN <<[category |-> "regional",
          title |-> [text |-> "Geographical Diversification"],
          description |-> [text |-> "Your portfolio is highly concentrated in one region:"],
          actionItems |-> regionalSuggestions(list)]>>
  ELSE <<>>

\* 2.2 currency concentration: dominantCurrency[1] > 80
CurrencyRecommendation(list) ==
  IF FGt(currencyDistribution(list, dominantCurrency(list)), Num(80))
  THEN <<[category |-> "currency",
          title |-> [text |-> "Currency Diversification"],
          description |-> [text |-> "Your portfolio is concentrated in one currency:"],
          actionItems |-> currencySuggestions(list)]>>
  ELSE <<>>

\* the analysis run only for more than two assets
DiversificationRecommendations_MoreThanTwo(u, list) ==
  IF Len(list) > 2
  THEN BalanceRecommendation(u, list) \o RegionalRecommendation(list)
       \o CurrencyRecommendation(list)
  ELSE <<>>

DiversificationRecommendations(u, list) ==
  IF Len(list) >= 2
  THEN BalanceRecommendation(u, list) \o RegionalRecommendation(list)
       \o CurrencyRecommendation(list)
  ELSE <<>>

----------------------------------------------------------------------------
(* 3. Bond laddering *)

\* the key of maturityMap for the asset: getFullYear(), NaN for an invalid date
NaNYear == 0 - 1

maturityYear(asset) ==
  IF NewDate(asset.maturity_date).ok THEN NewDate(asset.maturity_date).y
  ELSE NaNYear

\* maturityMap[year].length; perpetual bonds are skipped
maturityCount(list, year) ==
  Cardinality({i \in 1..Len(list) :
                 list[i].type # "perpetualBond" /\ maturityYear(list[i]) = year})

maturityKeys(list) ==
  {maturityYear(list[i]) : i \in {j \in 1..Len(list) : list[j].type # "perpetualBond"}}

RECURSIVE Ascending(_)
Ascending(S) ==
  IF S = {} THEN <<>>
  ELSE LET least == CHOOSE x \in S : \A y \in S : x <= y
       IN <<least>> \o Ascending(S \ {least})

\* Object.entries(maturityMap): the year keys in ascending order, then "NaN"
maturityEntries(list) ==
  Ascending(maturityKeys(list) \ {NaNYear})
  \o (IF NaNYear \in maturityKeys(list) THEN <<NaNYear>> ELSE <<>>)

hasClusteredMaturities(list) ==
  \E year \in maturityKeys(list) : maturityCount(list, year) >= 3

\* the forEach over the entries that keeps the first strictly larger count
RECURSIVE maxYearFrom(_, _, _, _)
maxYearFrom(list, entries, maxYear, maxCount) ==
  IF entries = <<>> THEN maxYear
  ELSE IF maturityCount(list, Head(entries)) > maxCount
  THEN maxYearFrom(list, Tail(entries), Head(entries),
                   maturityCount(list, Head(entries)))
  ELSE maxYearFrom(list, Tail(entries), maxYear, maxCount)

maxYear(list) == maxYearFrom(list, maturityEntries(list), NaNYear, 0)

\* the missing years looked for through the current year + 4 only
missingYears_FourYearsAhead(list, now) ==
  Ascending({year \in now.y .. now.y + 4 : year \notin maturityKeys(list)})

missingYears(list, now) ==
  Ascending({year \in now.y .. now.y + 5 : year \notin maturityKeys(list)})

suggestedLadderStrategy(list, now) ==
  LET missing == missingYears(list, now)
      shown == IF Len(missing) < 3 THEN Len(missing) ELSE 3
  IN (IF hasClusteredMaturities(list)
      THEN <<[kind |-> "diversifyYear", year |-> maxYear(list)]>> ELSE <<>>)
     \o [i \in 1..shown |-> [kind |-> "addYear", year |-> missing[i]]]

LadderingRecommendations(list, now) ==
  IF Len(list) >= 3 /\ Len(suggestedLadderStrategy(list, now)) > 0
  THEN <<[category |-> "laddering",
          title |-> [text |-> "Bond Ladder Optimization"],
          description |-> [text |-> "A well-structured bond ladder can help balance liquidity needs with yield:"],
          actionItems |-> suggestedLadderStrategy(list, now)]>>
  ELSE <<>>

----------------------------------------------------------------------------
(* 4. Liquidity planning *)

\* the index (0 is this month) of the bucket an event adds its amount to,
\* NoBucket when it adds to none
NoBucket == 0 - 1

InHorizon(date, now) ==
  /\ date.ok
  /\ ~DateLt(date, now)
  /\ differenceInMonths(date, now) < 24
  /\ MonthKey(date) - MonthKey(now) \in 0..23

eventBucket(event, userCurrency, now) ==
  LET eventDate == NewDate(event.date)
  IN IF InHorizon(eventDate, now) /\ event.currency = userCurrency
     THEN MonthKey(eventDate) - MonthKey(now) ELSE NoBucket

\* the bucket an asset adds its face value to; perpetual bonds are skipped
maturityBucket(asset, userCurrency, now) ==
  LET maturityDate == NewDate(asset.maturity_date)
  IN IF asset.type # "perpetualBond" /\ InHorizon(maturityDate, now)
        /\ asset.currency = userCurrency
     THEN MonthKey(maturityDate) - MonthKey(now) ELSE NoBucket

\* liquidityByMonth in key order, as initialised: entry i + 1 is the i-th
\* month from now
RECURSIVE monthsFrom(_, _)
monthsFrom(now, i) ==
  IF i >= 24 THEN <<>>
  ELSE <<[needs |-> 0, maturities |-> 0, date |-> addMonths(now, i)]>>
       \o monthsFrom(now, i + 1)

emptyMonths(now) == monthsFrom(now, 0)

\* events.forEach: each event adds its amount to the needs of its bucket
RECURSIVE addNeeds(_, _, _, _)
addNeeds(months, evs, userCurrency, now) ==
  IF evs = <<>> THEN months
  ELSE LET bucket == eventBucket(Head(evs), userCurrency, now)
       IN addNeeds(IF bucket = NoBucket THEN months
                   ELSE [months EXCEPT ![bucket + 1].needs = @ + Head(evs).amount],
                   Tail(evs), userCurrency, now)

\* the maturities accumulated from market values in place of face values
RECURSIVE addMaturities_MarketValue(_, _, _, _)
addMaturities_MarketValue(months, list, userCurrency, now) ==
  IF list = <<>> THEN months
  ELSE LET bucket == maturityBucket(Head(list), userCurrency, now)
       IN addMaturities_MarketValue(
            IF bucket = NoBucket THEN months
            ELSE [months EXCEPT ![bucket + 1].maturities =
                                  @ + getMarketValue(Head(list))],
            Tail(list), userCurrency, now)

\* assets.forEach: each asset adds its face value to the maturities of its bucket
RECURSIVE addMaturities(_, _, _, _)
addMaturities(months, list, userCurrency, now) ==
  IF list = <<>> THEN months
  ELSE LET bucket == maturityBucket(Head(list), userCurrency, now)
       IN addMaturities(IF bucket = NoBucket THEN months
                        ELSE [months EXCEPT ![bucket + 1].maturities =
                                              @ + Head(list).face_value],
                        Tail(list), userCurrency, now)

liquidityByMonth(u, list, evs, now) ==
  addMaturities(addNeeds(emptyMonths(now), evs, OrDefault(u.currency, "EUR"), now),
                list, OrDefault(u.currency, "EUR"), now)

\* format() throws a RangeError on an Invalid Date
FormatThrows(list, evs) ==
  \/ \E j \in 1..Len(evs) : ~NewDate(evs[j].date).ok
  \/ \E j \in 1..Len(list) :
       list[j].type # "perpetualBond" /\ ~NewDate(list[j].maturity_date).ok

\* the walk with the surplus test maturities > needs in place of
\* maturities > needs * 1.5
RECURSIVE MonthWalk_AnyExcessIsSurplus(_, _, _, _)
MonthWalk_AnyExcessIsSurplus(months, userCurrency, i, cumulativeBefore) ==
  IF i > Len(months)
  THEN [shortfallMonths |-> <<>>, surplusMonths |-> <<>>,
        criticalShortfalls |-> <<>>]
  ELSE
    LET needs == months[i].needs
        maturities == months[i].maturities
        cumulativePosition == cumulativeBefore + (maturities - needs)
        rest == MonthWalk_AnyExcessIsSurplus(months, userCurrency, i + 1,
                                             cumulativePosition)
        isShortfall == needs > 0 /\ maturities < needs
        isCritical == isShortfall /\ 5 * (needs - maturities) > needs
                      /\ cumulativePosition < 0
        isSurplus == needs > 0 /\ maturities > needs
    IN [shortfallMonths |->
          (IF isShortfall
           THEN <<[month |-> MonthLabel(months[i].date),
                   value |-> formatCurrency(needs - maturities, userCurrency),
                   kind |-> "shortfall"]>>
           ELSE <<>>) \o rest.shortfallMonths,
        surplusMonths |->
          (IF isSurplus
           THEN <<[month |-> MonthLabel(months[i].date),
                   value |-> formatCurrency(maturities - needs, userCurrency),
                   kind |-> "surplus"]>>
           ELSE <<>>) \o rest.surplusMonths,
        criticalShortfalls |->
          (IF isCritical THEN <<MonthLabel(months[i].date)>> ELSE <<>>)
          \o rest.criticalShortfalls]

\* the walk with a critical test that ignores the cumulative position
RECURSIVE MonthWalk_CriticalWithoutCumulative(_, _, _, _)
MonthWalk_CriticalWithoutCumulative(months, userCurrency, i, cumulativeBefore) ==
  IF i > Len(months)
  THEN [shortfallMonths |-> <<>>, surplusMonths |-> <<>>,
        criticalShortfalls |-> <<>>]
  ELSE
    LET needs == months[i].needs
        maturities == months[i].maturities
        cumulativePosition == cumulativeBefore + (maturities - needs)
        rest == MonthWalk_CriticalWithoutCumulative(months, userCurrency, i + 1,
                                             cumulativePosition)
        isShortfall == needs > 0 /\ maturities < needs
        isCritical == isShortfall /\ 5 * (needs - maturities) > needs
        isSurplus == needs > 0 /\ ~(maturities < needs)
                     /\ 2 * maturities > 3 * needs
    IN [shortfallMonths |->
          (IF isShortfall
           THEN <<[month |-> MonthLabel(months[i].date),
                   value |-> formatCurrency(needs - maturities, userCurrency),
                   kind |-> "shortfall"]>>
           ELSE <<>>) \o rest.shortfallMonths,
        surplusMonths |->
          (IF isSurplus
           THEN <<[month |-> MonthLabel(months[i].date),
                   value |-> formatCurrency(maturities - needs, userCurrency),
                   kind |-> "surplus"]>>
           ELSE <<>>) \o rest.surplusMonths,
        criticalShortfalls |->
          (IF isCritical THEN <<MonthLabel(months[i].date)>> ELSE <<>>)
          \o rest.criticalShortfalls]

\* the walk over the sorted months from entry i on, with the cumulative
\* position before it: [shortfallMonths, surplusMonths, criticalShortfalls]
RECURSIVE MonthWalk(_, _, _, _)
MonthWalk(months, userCurrency, i, cumulativeBefore) ==
  IF i > Len(months)
  THEN [shortfallMonths |-> <<>>, surplusMonths |-> <<>>,
        criticalShortfalls |-> <<>>]
  ELSE
    LET needs == months[i].needs
        maturities == months[i].maturities
        cumulativePosition == cumulativeBefore + (maturities - needs)
        rest == MonthWalk(months, userCurrency, i + 1, cumulativePosition)
        isShortfall == needs > 0 /\ maturities < needs
        \* (needs - maturities) > needs * 0.2
        isCritical == isShortfall /\ 5 * (needs - maturities) > needs
                      /\ cumulativePosition < 0
        \* maturities > needs * 1.5
        isSurplus == needs > 0 /\ ~(maturities < needs)
                     /\ 2 * maturities > 3 * needs
    IN [shortfallMonths |->
          (IF isShortfall
           THEN <<[month |-> MonthLabel(months[i].date),
                   value |-> formatCurrency(needs - maturities, userCurrency),
                   kind |-> "shortfall"]>>
           ELSE <<>>) \o rest.shortfallMonths,
        surplusMonths |->
          (IF isSurplus
           THEN <<[month |-> MonthLabel(months[i].date),
                   value |-> formatCurrency(maturities - needs, userCurrency),
                   kind |-> "surplus"]>>
           ELSE <<>>) \o rest.surplusMonths,
        criticalShortfalls |->
          (IF isCritical THEN <<MonthLabel(months[i].date)>> ELSE <<>>)
          \o rest.criticalShortfalls]

monthWalk(u, list, evs, now) ==
  MonthWalk(liquidityByMonth(u, list, evs, now), OrDefault(u.currency, "EUR"), 1, 0)

\* new Date("MMM yyyy" + "-01"): not an ISO string, so the result is left
\* to the runtime's fallback parser: the first of that month, or Invalid Date
LabelDate(label, parser) ==
  IF parser = "lenient" THEN DateOf(label.year, label.mon, 1, 0)
  ELSE InvalidDate

assetsAvailableForSale(u, list, criticalShortfalls, parser) ==
  LET userCurrency == OrDefault(u.currency, "EUR")
  IN IF Len(criticalShortfalls) > 0
     THEN SelectSeq(list, LAMBDA asset :
            \/ asset.type = "perpetualBond"
            \/ /\ DateLt(LabelDate(criticalShortfalls[1], parser),
                         NewDate(asset.maturity_date))
               /\ asset.currency = userCurrency)
     ELSE <<>>

\* marketValue / face_value - 1
premium(asset) ==
  FAdd(FDiv(Num(getMarketValue(asset)), Num(asset.face_value)), Num(-1))

\* the first entry of a sort by descending premium
RECURSIVE BestIndex_LargestPremium(_, _, _)
BestIndex_LargestPremium(candidates, i, best) ==
  IF i > Len(candidates) THEN best
  ELSE BestIndex_LargestPremium(candidates, i + 1,
                 IF FGt(premium(candidates[i]), premium(candidates[best]))
                 THEN i ELSE best)

\* sortedAssets[0] of the stable sort by ascending premium
RECURSIVE BestIndex(_, _, _)
BestIndex(candidates, i, best) ==
  IF i > Len(candidates) THEN best
  ELSE BestIndex(candidates, i + 1,
                 IF FLt(premium(candidates[i]), premium(candidates[best]))
                 THEN i ELSE best)

bestAssetToSell(candidates) == candidates[BestIndex(candidates, 2, 1)]

\* shortfallMonths.slice(0, 3) and the count of the others
FirstThree(months) ==
  [shown |-> SubSeq(months, 1, IF Len(months) < 3 THEN Len(months) ELSE 3),
   more |-> IF Len(months) > 3 THEN Len(months) - 3 ELSE 0]

liquidityActions(u, list, walk, parser) ==
  LET userCurrency == OrDefault(u.currency, "EUR")
      candidates == assetsAvailableForSale(u, list, walk.criticalShortfalls, parser)
      totalSellableValue == getTotalMarketValue(candidates)
      best == bestAssetToSell(candidates)
  IN (IF Len(walk.criticalShortfalls) > 0
      THEN <<[kind |-> "criticalGaps", months |-> walk.criticalShortfalls]>>
      ELSE <<>>)
     \o <<[kind |-> "upcomingGaps", months |-> FirstThree(walk.shortfallMonths)]>>
     \o (IF totalSellableValue > 0
         THEN <<[kind |-> "sellable",
                 value |-> formatCurrency(totalSellableValue, userCurrency)]>>
              \o (IF Len(walk.criticalShortfalls) > 0 /\ Len(candidates) > 0
                  THEN <<[kind |-> "sell", name |-> best.name,
                          value |-> formatCurrency(getMarketValue(best), userCurrency),
                          premium |-> premium(best),
                          label |-> IF FLt(premium(best), Num(0))
                                    THEN "discount" ELSE "premium"]>>
                  ELSE <<>>)
         ELSE <<[kind |-> "creditLine"], [kind |-> "treasuryBills"]>>)
     \o (IF Len(walk.surplusMonths) > 0
         THEN <<[kind |-> "adjustLadder"]>> ELSE <<>>)

\* the composition that looks at the surplus months before the shortfall months
LiquidityRecommendations_SurplusFirst(u, list, evs, now, parser) ==
  IF Len(evs) > 0
  THEN
    LET walk == monthWalk(u, list, evs, now) IN
    IF Len(walk.surplusMonths) > 0
    THEN <<[category |-> "liquidity",
            title |-> [text |-> "Reinvestment Opportunities"],
            description |-> [text |-> "You have upcoming periods with excess liquidity after expenses:"],
            actionItems |-> <<[kind |-> "upcomingSurplus",
                               months |-> FirstThree(walk.surplusMonths)],
                              [kind |-> "prePlan"], [kind |-> "lookAhead"]>>]>>
    ELSE IF Len(walk.shortfallMonths) > 0
    THEN <<[category |-> "liquidity",
            title |-> [text |-> "Liquidity Risk Management"],
            description |-> [text |-> "Your upcoming expenses require careful liquidity planning:"],
            actionItems |-> liquidityActions(u, list, walk, parser)]>>
    ELSE <<>>
  ELSE <<>>

LiquidityRecommendations(u, list, evs, now, parser) ==
  IF Len(evs) > 0
  THEN
    LET walk == monthWalk(u, list, evs, now) IN
    IF Len(walk.shortfallMonths) > 0
    THEN <<[category |-> "liquidity",
            title |-> [text |-> "Liquidity Risk Management"],
            description |-> [text |-> "Your upcoming expenses require careful liquidity planning:"],
            actionItems |-> liquidityActions(u, list, walk, parser)]>>
    ELSE IF Len(walk.surplusMonths) > 0
    THEN <<[category |-> "liquidity",
            title |-> [text |-> "Reinvestment Opportunities"],
            description |-> [text |-> "You have upcoming periods with excess liquidity after expenses:"],
            actionItems |-> <<[kind |-> "upcomingSurplus",
                               months |-> FirstThree(walk.surplusMonths)],
                              [kind |-> "prePlan"], [kind |-> "lookAhead"]>>]>>
    ELSE <<>>
  ELSE <<>>

----------------------------------------------------------------------------
(* 5. Yield *)

RECURSIVE FSum(_)
FSum(xs) == IF xs = <<>> THEN Num(0) ELSE FAdd(Head(xs), FSum(Tail(xs)))

\* sum of calculateYTM(asset) * getMarketValue(asset), over totalValue
weightedYield(list, now) ==
  FDiv(FSum([i \in 1..Len(list) |->
               FMul(calculateYTM(list[i], now), Num(getMarketValue(list[i])))]),
       Num(getTotalMarketValue(list)))

\* the thresholds tested with <= in place of <
yieldSuggestions_AtOrBelow(u, list, now) ==
  LET userRegion == OrDefault(u.country, "eurozone")
      yield == weightedYield(list, now)
  IN IF userRegion = "eurozone" /\ (FLt(yield, Num(3)) \/ yield = Num(3))
     THEN <<[kind |-> "peripheralEurozone"], [kind |-> "investmentGrade"]>>
     ELSE IF userRegion = "uk" /\ (FLt(yield, Num(4)) \/ yield = Num(4))
     THEN <<[kind |-> "longerGilts"], [kind |-> "ukCorporate"]>>
     ELSE <<>>

yieldSuggestions(u, list, now) ==
  LET userRegion == OrDefault(u.country, "eurozone")
  IN IF userRegion = "eurozone" /\ FLt(weightedYield(list, now), Num(3))
     THEN <<[kind |-> "peripheralEurozone"], [kind |-> "investmentGrade"]>>
     ELSE IF userRegion = "uk" /\ FLt(weightedYield(list, now), Num(4))
     THEN <<[kind |-> "longerGilts"], [kind |-> "ukCorporate"]>>
     ELSE <<>>

YieldRecommendations(u, list, now) ==
  IF Len(list) >= 3 /\ Len(yieldSuggestions(u, list, now)) > 0
  THEN <<[category |-> "yield",
          title |-> [text |-> "Yield Enhancement Strategies"],
          description |-> [yield |-> weightedYield(list, now)],
          actionItems |-> yieldSuggestions(u, list, now),
          region |-> OrDefault(u.country, "eurozone")]>>
  ELSE <<>>

----------------------------------------------------------------------------
(* generateRecommendations *)

\* the invocation ends in an exception instead of returning
Throws(u, list, evs) ==
  u # NoUser /\ Len(list) > 0 /\ Len(evs) > 0 /\ FormatThrows(list, evs)
\* the liquidity analysis run before the laddering analysis
generateRecommendations_LiquidityBeforeLaddering(u, list, evs, now, parser) ==
  IF u = NoUser \/ Len(list) = 0 THEN <<>>
  ELSE RolloverRecommendations(u, list, evs, now)
       \o DiversificationRecommendations(u, list)
       \o LiquidityRecommendations(u, list, evs, now, parser)
       \o LadderingRecommendations(list, now)
       \o YieldRecommendations(u, list, now)

\* the early return taken for an absent user only
generateRecommendations_NoEmptyCheck(u, list, evs, now, parser) ==
  IF u = NoUser THEN <<>>
  ELSE RolloverRecommendations(u, list, evs, now)
       \o DiversificationRecommendations(u, list)
       \o LadderingRecommendations(list, now)
       \o LiquidityRecommendations(u, list, evs, now, parser)
       \o YieldRecommendations(u, list, now)

generateRecommendations(u, list, evs, now, parser) ==
  IF u = NoUser \/ Len(list) = 0 THEN <<>>
  ELSE RolloverRecommendations(u, list, evs, now)
       \o DiversificationRecommendations(u, list)
       \o LadderingRecommendations(list, now)
       \o LiquidityRecommendations(u, list, evs, now, parser)
       \o YieldRecommendations(u, list, now)

----------------------------------------------------------------------------
(* The asset form: parseInputValue and validateForm *)

\* a string is the sequence of its characters
Digits == {"0", "1", "2", "3", "4", "5", "6", "7", "8", "9"}

DigitValue(c) ==
  CASE c = "0" -> 0 [] c = "1" -> 1 [] c = "2" -> 2 [] c = "3" -> 3
    [] c = "4" -> 4 [] c = "5" -> 5 [] c = "6" -> 6 [] c = "7" -> 7
    [] c = "8" -> 8 [] c = "9" -> 9

\* the decimal value of a string of digits, 0 for the empty one
RECURSIVE DecimalValue(_)
DecimalValue(str) ==
  IF str = <<>> THEN 0
  ELSE 10 * DecimalValue(SubSeq(str, 1, Len(str) - 1)) + DigitValue(str[Len(str)])

RECURSIVE PowerOfTen(_)
PowerOfTen(n) == IF n = 0 THEN 1 ELSE 10 * PowerOfTen(n - 1)

\* the longest prefix of digits
RECURSIVE DigitPrefix(_)
DigitPrefix(str) ==
  IF str = <<>> \/ Head(str) \notin Digits THEN <<>>
  ELSE <<Head(str)>> \o DigitPrefix(Tail(str))

\* parseFloat on a string of digits and points: the longest prefix of the
\* form digits [. digits] that holds a digit, NaN when there is none
parseFloat(str) ==
  LET whole == DigitPrefix(str)
      rest == SubSeq(str, Len(whole) + 1, Len(str))
      fraction == IF rest # <<>> /\ Head(rest) = "." THEN DigitPrefix(Tail(rest))
                  ELSE <<>>
  IN IF whole = <<>> /\ fraction = <<>> THEN NaN
     ELSE Fin(DecimalValue(whole \o fraction), PowerOfTen(Len(fraction)))

\* value.replace(/[^\d.]/g, '')
KeepDigitsAndPoints(str) == SelectSeq(str, LAMBDA c : c \in Digits \/ c = ".")

\* str.replace(/\./g, '')
WithoutPoints(str) == SelectSeq(str, LAMBDA c : c # ".")

\* str.lastIndexOf('.'), 1-based; 0 when there is no point
lastIndexOfPoint(str) ==
  IF \E i \in 1..Len(str) : str[i] = "."
  THEN CHOOSE i \in 1..Len(str) :
         str[i] = "." /\ \A j \in (i + 1)..Len(str) : str[j] # "."
  ELSE 0

\* the result of the branch for several decimal points guarded like the other
parseInputValue_GuardsBothBranches(value) ==
  IF value = <<>> THEN Num(0)
  ELSE LET cleanedValue == KeepDigitsAndPoints(value)
           lastIndex == lastIndexOfPoint(cleanedValue)
           several == Len(SelectSeq(cleanedValue, LAMBDA c : c = ".")) > 1
           joined == WithoutPoints(SubSeq(cleanedValue, 1, lastIndex - 1))
                     \o SubSeq(cleanedValue, lastIndex, Len(cleanedValue))
       IN OrZero(parseFloat(IF several THEN joined ELSE cleanedValue))

parseInputValue(value) ==
  IF value = <<>> THEN Num(0)
  ELSE LET cleanedValue == KeepDigitsAndPoints(value)
           decimalPoints == SelectSeq(cleanedValue, LAMBDA c : c = ".")
       IN IF Len(decimalPoints) > 1
          THEN LET lastIndex == lastIndexOfPoint(cleanedValue)
                   beforeLastDecimal ==
                     WithoutPoints(SubSeq(cleanedValue, 1, lastIndex - 1))
                   afterLastDecimal ==
                     SubSeq(cleanedValue, lastIndex, Len(cleanedValue))
               IN parseFloat(beforeLastDecimal \o afterLastDecimal)
          ELSE OrZero(parseFloat(cleanedValue))

\* x <= y; false when either side is NaN
FLe(x, y) == x.k # "nan" /\ y.k # "nan" /\ ~FLt(y, x)

\* the fields of the form that validateForm reads
initialFormState ==
  [type |-> "governmentBond", name |-> "", purchase_date |-> NullDate,
   maturity_date |-> NullDate, face_value |-> Num(0), purchase_price |-> Num(0),
   interest_rate |-> Num(0), callable |-> FALSE, call_date |-> NullDate]

\* name.trim() for the names used here: only " " has whitespace to drop
trim(str) == IF str = " " THEN "" ELSE str

\* the keys of the errors object validateForm builds
validationErrors(data) ==
  {field \in {"name", "purchase_date", "maturity_date", "face_value",
              "purchase_price", "interest_rate", "call_date"} :
     \/ field = "name" /\ trim(data.name) = ""
     \/ field = "purchase_date" /\ data.purchase_date = NullDate
     \/ field = "maturity_date" /\ data.maturity_date = NullDate
                                /\ data.type # "perpetualBond"
     \/ field = "face_value" /\ FLe(data.face_value, Num(1000))
     \/ field = "purchase_price" /\ FLe(data.purchase_price, Num(0))
     \/ field = "interest_rate" /\ \/ FLt(data.interest_rate, Num(0))
                                   \/ FGt(data.interest_rate, Num(100))
     \/ field = "call_date" /\ data.callable /\ data.call_date = NullDate}

----------------------------------------------------------------------------
(* The state machine *)

User(risk_tolerance, currency, country) ==
  [present |-> TRUE, risk_tolerance |-> risk_tolerance, currency |-> currency,
   country |-> country]

Asset(name, type, issuer_type, maturity_date, face_value, purchase_price, current_price, interest_rate, currency, region) ==
  [name |-> name, type |-> type, issuer_type |-> issuer_type,
   maturity_date |-> maturity_date, face_value |-> face_value,
   purchase_price |-> purchase_price, current_price |-> current_price,
   interest_rate |-> interest_rate, currency |-> currency, region |-> region]

Event(amount, currency, date) ==
  [amount |-> amount, currency |-> currency, date |-> date]

NoAsset == Asset("", "other", "other", NullDate, 0, 0, NoPrice, 0, "", "")
NoResult == [fn |-> "none"]

\* the lists that keep at most max records of a catalogue, in its order
Sublists(catalogue, max) ==
  {SelectSeq([i \in 1..Len(catalogue) |-> [at |-> i, record |-> catalogue[i]]],
             LAMBDA entry : entry.at \in chosen) :
     chosen \in {S \in SUBSET (1..Len(catalogue)) : Cardinality(S) <= max}}

Records(entries) == [i \in 1..Len(entries) |-> entries[i].record]

\* an invocation of generateRecommendations on inputs drawn from the given sets
InitWith(users, assetLists, eventLists, clocks, parsers) ==
  /\ user \in users
  /\ assets \in assetLists
  /\ events \in eventLists
  /\ today \in clocks
  /\ runtime \in parsers
  /\ recommendations = <<>>
  /\ raised = FALSE
  /\ pc = "ready"
  /\ fnArg = NoAsset
  /\ fnResult = NoResult
  /\ formData = initialFormState
  /\ formErrors = {}

\* the inputs drawn from catalogues, in catalogue order
InitEngine(users, assetCatalogue, eventCatalogue, clocks, parsers) ==
  InitWith(users,
           {Records(l) : l \in Sublists(assetCatalogue, MaxAssets)},
           {Records(l) : l \in Sublists(eventCatalogue, MaxEvents)},
           clocks, parsers)

\* assets.sort by ascending premium, as a stable insertion
RECURSIVE InsertByPremium(_, _)
InsertByPremium(asset, sorted) ==
  IF sorted = <<>> THEN <<asset>>
  ELSE IF FLt(premium(asset), premium(Head(sorted))) THEN <<asset>> \o sorted
  ELSE <<Head(sorted)>> \o InsertByPremium(asset, Tail(sorted))

RECURSIVE SortedByPremium(_)
SortedByPremium(list) ==
  IF list = <<>> THEN <<>>
  ELSE InsertByPremium(list[Len(list)], SortedByPremium(SubSeq(list, 1, Len(list) - 1)))

\* the invocation with the sale candidates ranked by sorting the asset list
\* itself instead of a copy
Generate_SortsAssetsInPlace ==
  /\ pc = "ready"
  /\ pc' = "done"
  /\ raised' = Throws(user, assets, events)
  /\ recommendations' =
       IF Throws(user, assets, events) THEN <<>>
       ELSE generateRecommendations(user, assets, events, today, runtime)
  /\ assets' = IF user # NoUser /\ ~Throws(user, assets, events)
               THEN SortedByPremium(assets) ELSE assets
  /\ UNCHANGED <<user, events, today, runtime, fnArg, fnResult, formData,
                 formErrors>>

Generate ==
  /\ pc = "ready"
  /\ pc' = "done"
  /\ raised' = Throws(user, assets, events)
  /\ recommendations' =
       IF Throws(user, assets, events) THEN <<>>
       ELSE generateRecommendations(user, assets, events, today, runtime)
  /\ UNCHANGED <<user, assets, events, today, runtime, fnArg, fnResult,
                 formData, formErrors>>

CallGetMarketValue ==
  /\ pc = "util"
  /\ fnResult = NoResult
  /\ fnResult' = [fn |-> "getMarketValue", value |-> Num(getMarketValue(fnArg))]
  /\ UNCHANGED <<user, assets, events, today, runtime, recommendations, raised,
                 pc, fnArg, formData, formErrors>>

CallCalculateYTM ==
  /\ pc = "util"
  /\ fnResult = NoResult
  /\ fnResult' = [fn |-> "calculateYTM", value |-> calculateYTM(fnArg, today)]
  /\ UNCHANGED <<user, assets, events, today, runtime, recommendations, raised,
                 pc, fnArg, formData, formErrors>>

NextEngine == Generate
NextUtil == CallGetMarketValue \/ CallCalculateYTM

----------------------------------------------------------------------------
(* Rollover: the inputs *)

RiskTolerances == {"conservative", "moderate", "aggressive"}

Clock(t) == DateOf(2025, 8, 31, t)
Clocks == {Clock(t) : t \in {0, 1, TicksPerDay - 1}}

RolloverUsers ==
  {NoUser, User("conservative", "EUR", "eurozone"), User("moderate", "EUR", "uk"),
   User("aggressive", "GBP", "")}

RolloverAssets ==
  << Asset("Bund", "governmentBond", "government", DateStr(2025, 10, 15),
           100, 98, NoPrice, 2, "EUR", "eurozone"),
     Asset("Gilt", "gilts", "government", DateStr(2025, 9, 30),
           100, 100, Price(40), 4, "GBP", "uk"),
     Asset("Overnight", "moneyMarket", "financial", DateStr(2025, 9, 1),
           60, 60, Price(0), 3, "EUR", "emea"),
     Asset("Today", "CD", "financial", DateStr(2025, 8, 31),
           50, 50, NoPrice, 3, "EUR", "eurozone"),
     Asset("Ninety", "corporateBond", "corporate", DateStr(2025, 11, 29),
           100, 100, Price(50), 5, "EUR", "us"),
     Asset("NinetyOne", "treasuryBill", "government", DateStr(2025, 11, 30),
           100, 100, NoPrice, 1, "EUR", "eurozone"),
     Asset("Consol", "perpetualBond", "government", NullDate,
           100, 80, NoPrice, 3, "GBP", "uk") >>

RolloverEvents ==
  << Event(50, "EUR", DateStr(2025, 10, 30)),
     Event(10, "EUR", DateStr(2026, 2, 28)),
     Event(70, "EUR", DateStr(2026, 3, 1)),
     Event(40, "GBP", DateStr(2025, 9, 1)),
     Event(30, "EUR", DateStr(2025, 8, 31)) >>

InitRollover ==
  InitEngine(RolloverUsers, RolloverAssets, RolloverEvents, Clocks, {"lenient"})

SpecRollover == InitRollover /\ [][NextEngine]_vars

----------------------------------------------------------------------------
(* Properties of the rollover analysis *)

Done == pc = "done"
Returned == pc = "done" /\ ~raised /\ user # NoUser /\ Len(assets) > 0

OfCategory(category) ==
  SelectSeq(recommendations, LAMBDA r : r.category = category)

\* the maturity date is strictly after now and at most 90 days away
MaturesWithin90Days(asset) ==
  /\ asset.maturity_date.k = "str"
  /\ LET midnight == DayNumber(asset.maturity_date.y, asset.maturity_date.m,
                               asset.maturity_date.d) * TicksPerDay
     IN getTime(today) < midnight /\ midnight <= getTime(today) + 90 * TicksPerDay

SoonAssets == SelectSeq(assets, MaturesWithin90Days)

\* n is the whole number of days nearest to the time left to maturity
IsDayCount(n, asset) ==
  LET left == TicksToMaturity(asset, today)
  IN 2 * Abs(left - n * TicksPerDay) <= TicksPerDay

\* C1: generateRecommendations returns the empty list whenever the asset
\* list is empty or the user is absent, whatever the liquidity events are.
C1_EmptyWithoutAssetsOrUser ==
  (Done /\ (Len(assets) = 0 \/ user = NoUser))
    => (recommendations = <<>> /\ ~raised)

C1_Witness ==
  /\ Done /\ Len(assets) = 0 /\ user # NoUser /\ Len(events) > 0
  /\ recommendations = <<>>

\* C2: the rollover recommendations are, in input order, exactly one for each
\* asset whose maturity date is strictly after now and at most 90 days away;
\* each names that asset's name and its day count to maturity and carries
\* the asset's region.
C2_OneRolloverPerSoonAsset ==
  Returned =>
    /\ Len(OfCategory("rollover")) = Len(SoonAssets)
    /\ \A k \in 1..Len(SoonAssets) :
         /\ OfCategory("rollover")[k].title.name = SoonAssets[k].name
         /\ IsDayCount(OfCategory("rollover")[k].title.days, SoonAssets[k])
         /\ OfCategory("rollover")[k].region = SoonAssets[k].region

\* an asset maturing in 30 days, no events: one rollover recommendation
C2_Witness ==
  /\ Returned /\ events = <<>> /\ today.t = 0
  /\ \E i \in 1..Len(assets) : assets[i].name = "Gilt"
  /\ Cardinality({k \in 1..Len(recommendations) :
                    /\ recommendations[k].category = "rollover"
                    /\ recommendations[k].title = [name |-> "Gilt", days |-> 30]
                    /\ recommendations[k].region = "uk"}) = 1

\* the sum of the amounts of the events dated within the next 6 months
\* whose currency is the asset's
NeedsWithinSixMonths(asset) ==
  SumSeq([j \in 1..Len(events) |->
            IF /\ events[j].currency = asset.currency
               /\ getTime(today) < getTime(NewDate(events[j].date))
               /\ getTime(NewDate(events[j].date)) <= getTime(addMonths(today, 6))
            THEN events[j].amount ELSE 0])

\* C3: for a soon-maturing asset with market value M and needs N, N > 0 and
\* M >= N, the action items are 'keep N liquid', then 'reinvest M - N'
\* exactly when M > N, and nothing else.
C3_CoveredNeedsKeepAndReinvest ==
  Returned =>
    \A k \in 1..Len(SoonAssets) :
      LET M == getMarketValue(SoonAssets[k])
          N == NeedsWithinSixMonths(SoonAssets[k])
          currency == SoonAssets[k].currency
          keep == [kind |-> "keepLiquid",
                   value |-> [amount |-> N, currency |-> currency]]
          reinvest == [kind |-> "reinvest",
                       value |-> [amount |-> M - N, currency |-> currency]]
      IN (N > 0 /\ M >= N) =>
           /\ k <= Len(OfCategory("rollover"))
           /\ OfCategory("rollover")[k].actionItems =
                (IF M > N THEN <<keep, reinvest>> ELSE <<keep>>)

\* market value 98, needs 50: keep 50 liquid and reinvest 48
C3_Witness ==
  /\ Returned
  /\ \E k \in 1..Len(recommendations) :
       /\ recommendations[k].category = "rollover"
       /\ recommendations[k].title.name = "Bund"
       /\ recommendations[k].actionItems =
            <<[kind |-> "keepLiquid", value |-> [amount |-> 50, currency |-> "EUR"]],
              [kind |-> "reinvest", value |-> [amount |-> 48, currency |-> "EUR"]]>>

----------------------------------------------------------------------------
(* getMarketValue and calculateYTM on their own: the inputs *)

UtilAssets ==
  {Asset("x", type, "government", maturity_date, 100, purchase_price,
         current_price, interest_rate, "EUR", "eurozone") :
     type \in AssetTypes,
     maturity_date \in {NullDate, BadDateStr, DateStr(2024, 2, 29),
                        DateStr(2025, 9, 1), DateStr(2026, 8, 31)},
     purchase_price \in {0, 90, 100},
     current_price \in {NoPrice, Price(-5), Price(0), Price(95)},
     interest_rate \in {0, 3}}

InitUtil ==
  /\ user = NoUser
  /\ assets = <<>>
  /\ events = <<>>
  /\ today \in Clocks
  /\ runtime = "lenient"
  /\ recommendations = <<>>
  /\ raised = FALSE
  /\ pc = "util"
  /\ fnArg \in UtilAssets
  /\ fnResult = NoResult
  /\ formData = initialFormState
  /\ formErrors = {}

SpecUtil == InitUtil /\ [][NextUtil]_vars

\* C4: getMarketValue returns current_price when it is defined and strictly
\* positive and purchase_price when it is missing, zero or negative,
\* whatever the asset's type.
C4_MarketValueFallback ==
  fnResult.fn = "getMarketValue" =>
    /\ (fnArg.current_price # NoPrice /\ fnArg.current_price[1] > 0)
         => fnResult.value = Num(fnArg.current_price[1])
    /\ (fnArg.current_price = NoPrice \/ fnArg.current_price[1] <= 0)
         => fnResult.value = Num(fnArg.purchase_price)

C4_Witness ==
  /\ fnResult.fn = "getMarketValue"
  /\ fnArg.current_price = Price(0) /\ fnArg.purchase_price = 90
  /\ fnArg.type = "perpetualBond"
  /\ fnResult.value = Num(90)

\* C8: calculateYTM returns the nominal interest_rate for every perpetual
\* bond, whatever its prices and maturity date, and for every asset whose
\* maturity date is missing or not a valid date.
C8_NominalRateForPerpetualOrNoDate ==
  (/\ fnResult.fn = "calculateYTM"
   /\ \/ fnArg.type = "perpetualBond"
      \/ fnArg.maturity_date \in {NullDate, BadDateStr})
    => fnResult.value = Num(fnArg.interest_rate)

C8_Witness ==
  /\ fnResult.fn = "calculateYTM"
  /\ fnArg.type = "perpetualBond" /\ fnArg.maturity_date = DateStr(2025, 9, 1)
  /\ fnArg.purchase_price = 90 /\ fnArg.interest_rate = 3
  /\ fnResult.value = Num(3)

----------------------------------------------------------------------------
(* Liquidity: the inputs *)

LiquidityClocks == {Clock(0), Clock(TicksPerDay - 1)}

LiquidityUsers ==
  {User("moderate", "EUR", "eurozone"), User("conservative", "", ""),
   User("aggressive", "GBP", "uk")}

LiquidityAssets ==
  << Asset("Oct100", "CD", "financial", DateStr(2025, 10, 5),
           100, 100, NoPrice, 3, "EUR", "eurozone"),
     Asset("Oct150", "corporateBond", "corporate", DateStr(2025, 10, 25),
           150, 150, NoPrice, 4, "EUR", "eurozone"),
     Asset("Oct151", "governmentBond", "government", DateStr(2025, 10, 15),
           151, 151, NoPrice, 2, "EUR", "eurozone"),
     Asset("GiltSep", "gilts", "government", DateStr(2025, 9, 10),
           500, 500, NoPrice, 4, "GBP", "uk"),
     Asset("Consol", "perpetualBond", "government", NullDate,
           100, 100, NoPrice, 3, "EUR", "eurozone"),
     Asset("Sep500", "treasuryBill", "government", DateStr(2025, 9, 20),
           500, 500, NoPrice, 2, "EUR", "eurozone"),
     Asset("Later", "corporateBond", "corporate", DateStr(2026, 6, 30),
           100, 100, Price(90), 5, "EUR", "us") >>

LiquidityEvents ==
  << Event(1000, "EUR", DateStr(2025, 9, 15)),
     Event(100, "EUR", DateStr(2025, 10, 10)),
     Event(25, "EUR", DateStr(2025, 10, 20)),
     Event(100, "GBP", DateStr(2025, 9, 20)),
     Event(50, "EUR", DateStr(2027, 8, 1)),
     Event(50, "EUR", DateStr(2025, 8, 31)) >>

InitLiquidity ==
  InitEngine(LiquidityUsers, LiquidityAssets, LiquidityEvents, LiquidityClocks,
             {"lenient"})

SpecLiquidity == InitLiquidity /\ [][NextEngine]_vars

----------------------------------------------------------------------------
(* Properties of the liquidity projection *)

\* the 24 months of the horizon with their needs and maturities
HorizonMonths == liquidityByMonth(user, assets, events, today)

\* the class of a month: a shortfall when maturities < needs, a surplus when
\* maturities > 1.5 x needs, neither otherwise or when there are no needs
ClassOf(month) ==
  IF month.needs > 0 /\ month.maturities < month.needs THEN "shortfall"
  ELSE IF month.needs > 0 /\ 2 * month.maturities > 3 * month.needs THEN "surplus"
  ELSE "neither"

AmountOf(month) ==
  IF ClassOf(month) = "shortfall" THEN month.needs - month.maturities
  ELSE month.maturities - month.needs

\* the months of one class in chronological order, as they are recorded
RecordedAs(months, class) ==
  LET at == SelectSeq([i \in 1..24 |-> i], LAMBDA i : ClassOf(months[i]) = class)
  IN [k \in 1..Len(at) |->
        [month |-> MonthLabel(months[at[k]].date),
         value |-> formatCurrency(AmountOf(months[at[k]]),
                                  OrDefault(user.currency, "EUR")),
         kind |-> class]]

HasItem(rec, kind) == \E k \in 1..Len(rec.actionItems) : rec.actionItems[k].kind = kind

ItemOf(rec, kind) ==
  rec.actionItems[CHOOSE k \in 1..Len(rec.actionItems) : rec.actionItems[k].kind = kind]

\* C5: every month of the horizon with needs > 0 is recorded as exactly one
\* of shortfall (maturities < needs, amount needs - maturities), surplus
\* (maturities > 1.5 x needs, amount maturities - needs) or neither, and a
\* month without needs is never recorded: the liquidity recommendation lists
\* exactly these months, in order, with these amounts.
C5_MonthClassification ==
  (Returned /\ Len(events) > 0) =>
    LET liquidity == OfCategory("liquidity")
        months == HorizonMonths
        shortfalls == RecordedAs(months, "shortfall")
        surpluses == RecordedAs(months, "surplus")
    IN IF Len(shortfalls) > 0
       THEN /\ Len(liquidity) = 1
            /\ HasItem(liquidity[1], "upcomingGaps")
            /\ ItemOf(liquidity[1], "upcomingGaps").months = FirstThree(shortfalls)
            /\ HasItem(liquidity[1], "adjustLadder") <=> Len(surpluses) > 0
       ELSE IF Len(surpluses) > 0
       THEN /\ Len(liquidity) = 1
            /\ HasItem(liquidity[1], "upcomingSurplus")
            /\ ItemOf(liquidity[1], "upcomingSurplus").months = FirstThree(surpluses)
       ELSE liquidity = <<>>

\* one event of 1000 next month in the user's currency and nothing maturing
\* that month: a shortfall of exactly 1000 for September 2025
C5_Witness ==
  /\ Returned /\ user.currency = "EUR"
  /\ events = <<Event(1000, "EUR", DateStr(2025, 9, 15))>>
  /\ \A i \in 1..Len(assets) : assets[i].name \in {"Oct151", "Consol"}
  /\ Len(OfCategory("liquidity")) = 1
  /\ ItemOf(OfCategory("liquidity")[1], "upcomingGaps").months =
       [shown |-> <<[month |-> MonthLabel(DateOf(2025, 9, 1, 0)),
                     value |-> formatCurrency(1000, "EUR"),
                     kind |-> "shortfall"]>>,
        more |-> 0]

----------------------------------------------------------------------------
(* Diversification: the inputs *)

DiversificationUsers ==
  {User("conservative", "EUR", "eurozone"), User("moderate", "EUR", "uk"),
   User("aggressive", "GBP", "us")}

\* two assets of each group, and three assets without market value
DiversificationAssets ==
  << Asset("Gov1", "governmentBond", "government", DateStr(2027, 5, 1),
           100, 100, NoPrice, 2, "EUR", "eurozone"),
     Asset("Gov2", "treasuryNote", "government", DateStr(2028, 5, 1),
           50, 50, NoPrice, 4, "USD", "us"),
     Asset("Corp1", "corporateBond", "corporate", DateStr(2027, 6, 1),
           100, 100, NoPrice, 5, "EUR", "eurozone"),
     Asset("Corp2", "perpetualBond", "corporate", NullDate,
           70, 70, NoPrice, 6, "GBP", "uk"),
     Asset("Muni1", "municipalBond", "government", DateStr(2029, 1, 1),
           100, 100, NoPrice, 3, "USD", "us"),
     Asset("Muni2", "municipalBond", "government", DateStr(2030, 1, 1),
           30, 30, NoPrice, 3, "USD", "us"),
     Asset("Sav1", "CD", "financial", DateStr(2025, 10, 15),
           100, 100, NoPrice, 2, "EUR", "eurozone"),
     Asset("Sav2", "moneyMarket", "financial", DateStr(2026, 1, 15),
           20, 20, Price(25), 1, "EUR", "emea"),
     Asset("Oth1", "other", "other", DateStr(2027, 3, 1),
           100, 100, NoPrice, 7, "CHF", "global"),
     Asset("Oth2", "other", "corporate", DateStr(2031, 1, 1),
           40, 40, NoPrice, 2, "EUR", "apac"),
     Asset("Zero1", "governmentBond", "government", DateStr(2026, 8, 31),
           100, 0, NoPrice, 2, "EUR", "eurozone"),
     Asset("Zero2", "corporateBond", "corporate", NullDate,
           100, 0, Price(0), 3, "GBP", "uk"),
     Asset("Zero3", "CD", "financial", DateStr(2026, 8, 31),
           100, 0, NoPrice, 0, "EUR", "eurozone") >>

DiversificationEvents == << Event(50, "EUR", DateStr(2025, 10, 30)) >>

InitDiversification ==
  InitEngine(DiversificationUsers, DiversificationAssets, DiversificationEvents,
             {Clock(0)}, {"lenient"})

SpecDiversification == InitDiversification /\ [][NextEngine]_vars

----------------------------------------------------------------------------
(* Properties of the diversification analysis *)

\* the market value held in one asset group
ValueIn(group) ==
  SumSeq([i \in 1..Len(assets) |->
            IF GroupOf(assets[i].type) = group THEN getMarketValue(assets[i])
            ELSE 0])

TotalValue == SumSeq([i \in 1..Len(assets) |-> getMarketValue(assets[i])])

Groups == {GroupNames[i] : i \in 1..Len(GroupNames)}

\* C6: for each risk tolerance profile and each asset group, a portfolio of
\* at least 2 assets with positive total market value that lies 100% in that
\* one group produces a diversification recommendation with at least one
\* imbalance action item (the group itself is above its range).
C6_SingleGroupIsImbalanced ==
  Returned =>
    \A group \in Groups :
      (Len(assets) >= 2 /\ TotalValue > 0 /\ ValueIn(group) = TotalValue)
        => LET found == OfCategory("diversification")
           IN /\ Len(found) = 1
              /\ Len(found[1].actionItems) >= 1
              /\ \A k \in 1..Len(found[1].actionItems) :
                   found[1].actionItems[k].kind \in {"increase", "reduce"}
              /\ \E k \in 1..Len(found[1].actionItems) :
                   /\ found[1].actionItems[k].kind = "reduce"
                   /\ found[1].actionItems[k].group = group
                   /\ found[1].actionItems[k].actual = Num(100)

\* two municipal bonds held by an aggressive investor: municipal is at 100%
\* against a range of 0-40%
C6_Witness ==
  /\ Returned /\ user.risk_tolerance = "aggressive"
  /\ Len(assets) = 2 /\ assets[1].name = "Muni1" /\ assets[2].name = "Muni2"
  /\ Len(OfCategory("diversification")) = 1
  /\ \E k \in 1..Len(OfCategory("diversification")[1].actionItems) :
       OfCategory("diversification")[1].actionItems[k] =
         [kind |-> "reduce", group |-> "municipal", actual |-> Num(100),
          min |-> 0, max |-> 40]

\* C10: when the total market value of the portfolio is zero no error is
\* raised, the analyses that divide by the total (diversification, regional,
\* currency, yield) emit no recommendation, and rollover, laddering and
\* liquidity emit what they emit otherwise.
C10_ZeroTotalShortCircuits ==
  (Done /\ user # NoUser /\ Len(assets) > 0 /\ TotalValue = 0) =>
    /\ ~raised
    /\ OfCategory("diversification") = <<>>
    /\ OfCategory("regional") = <<>>
    /\ OfCategory("currency") = <<>>
    /\ OfCategory("yield") = <<>>
    /\ OfCategory("rollover") = RolloverRecommendations(user, assets, events, today)
    /\ OfCategory("laddering") = LadderingRecommendations(assets, today)
    /\ OfCategory("liquidity") =
         LiquidityRecommendations(user, assets, events, today, runtime)

----------------------------------------------------------------------------
(* Laddering: the inputs *)

LadderingUsers == {User("moderate", "EUR", "eurozone")}

Bond(name, type, maturity_date) ==
  Asset(name, type, "government", maturity_date, 100, 100, NoPrice, 3, "EUR",
        "eurozone")

\* three maturities in 2027 and in 2029, four dates that do not parse, a
\* perpetual bond carrying a 2027 date and an asset without a date
LadderingAssets ==
  << Bond("Y27a", "governmentBond", DateStr(2027, 1, 15)),
     Bond("Y27b", "bunds", DateStr(2027, 6, 30)),
     Bond("Y27c", "treasuryNote", DateStr(2027, 12, 31)),
     Bond("Y29a", "governmentBond", DateStr(2029, 1, 1)),
     Bond("Y29b", "OATs", DateStr(2029, 3, 1)),
     Bond("Y29c", "BTPs", DateStr(2029, 9, 1)),
     Bond("Bad1", "governmentBond", BadDateStr),
     Bond("Bad2", "governmentBond", BadDateStr),
     Bond("Bad3", "governmentBond", BadDateStr),
     Bond("Bad4", "governmentBond", BadDateStr),
     Bond("Consol", "perpetualBond", DateStr(2027, 3, 1)),
     Bond("Undated", "governmentBond", NullDate) >>

LadderingEvents == << Event(50, "EUR", DateStr(2025, 10, 30)) >>

InitLaddering ==
  InitWith(LadderingUsers,
           {Records(l) : l \in Sublists(LadderingAssets, MaxLadderAssets)},
           {Records(l) : l \in Sublists(LadderingEvents, MaxEvents)},
           {Clock(0)}, {"lenient"})

SpecLaddering == InitLaddering /\ [][NextEngine]_vars

----------------------------------------------------------------------------
(* Properties of the laddering analysis *)

\* the assets that mature: not perpetual, with a maturity date that parses
Matures(asset) ==
  asset.type # "perpetualBond" /\ NewDate(asset.maturity_date).ok

CalendarYears ==
  {NewDate(assets[i].maturity_date).y : i \in {j \in 1..Len(assets) : Matures(assets[j])}}

HeldIn(year) ==
  Cardinality({i \in 1..Len(assets) :
                 Matures(assets[i]) /\ NewDate(assets[i].maturity_date).y = year})

Unparsable ==
  Cardinality({i \in 1..Len(assets) :
                 /\ assets[i].type # "perpetualBond"
                 /\ ~NewDate(assets[i].maturity_date).ok})

\* there is one laddering recommendation, and its clustering item names a
\* calendar year that holds the most maturities
NamesFullestYear ==
  /\ Len(OfCategory("laddering")) = 1
  /\ \E k \in 1..Len(OfCategory("laddering")[1].actionItems) :
       LET item == OfCategory("laddering")[1].actionItems[k]
       IN /\ item.kind = "diversifyYear"
          /\ item.year \in CalendarYears
          /\ \A year \in CalendarYears : HeldIn(item.year) >= HeldIn(year)

\* C7: when the portfolio has at least 3 assets and some calendar year holds
\* the maturities of at least 3 non-perpetual assets, a laddering
\* recommendation is emitted whose clustering action item names the maturity
\* year that holds the most assets.
C7_ClusteredYearIsNamed ==
  (Returned /\ Len(assets) >= 3 /\ \E year \in CalendarYears : HeldIn(year) >= 3)
    => NamesFullestYear

\* 3 assets all maturing in 2027 and no other assets: the item names 2027
C7_Witness ==
  /\ Returned /\ Len(assets) = 3
  /\ \A i \in 1..Len(assets) : assets[i].name \in {"Y27a", "Y27b", "Y27c"}
  /\ Len(OfCategory("laddering")) = 1
  /\ OfCategory("laddering")[1].actionItems[1] =
       [kind |-> "diversifyYear", year |-> 2027]

\* the same statement for portfolios where the dates that do not parse are
\* no more than the maturities of the fullest year
LadderNamesFullestYearWhenDatesParse ==
  (Returned /\ Len(assets) >= 3 /\ \E year \in CalendarYears : HeldIn(year) >= 3
   /\ \E fullest \in CalendarYears : HeldIn(fullest) >= Unparsable)
    => NamesFullestYear

----------------------------------------------------------------------------
(* The frame of an invocation *)

\* C11: generateRecommendations leaves its inputs unchanged: across every
\* invocation the user record, the asset list (its order and every asset's
\* fields) and the event list are what they were before the call.
C11_InputsUnchanged ==
  [][user' = user /\ assets' = assets /\ events' = events]_vars

\* an invocation that ranked the sale candidates (the one sold is not the
\* first asset of the list) and returned with the list in its input order
C11_Witness ==
  /\ Returned
  /\ Len(assets) = 2 /\ assets[1].name = "Oct100" /\ assets[2].name = "Later"
  /\ Len(OfCategory("liquidity")) = 1
  /\ HasItem(OfCategory("liquidity")[1], "sell")
  /\ ItemOf(OfCategory("liquidity")[1], "sell").name = "Later"

----------------------------------------------------------------------------
(* Properties of the replacement suggestions *)

\* the asset's needs are absent or exceed its market value
Uncovered(asset) ==
  ~(NeedsWithinSixMonths(asset) > 0
    /\ getMarketValue(asset) >= NeedsWithinSixMonths(asset))

ItemsOfKind(rec, kind) == SelectSeq(rec.actionItems, LAMBDA item : item.kind = kind)

\* the table's region for the asset: its own when the table has it
TableRegion(asset) ==
  IF asset.region \in DOMAIN approximateRates THEN asset.region ELSE "global"

\* the table's type for the asset: its own when the table has it, otherwise
\* the issuer-type bucket
TableType(asset) ==
  IF asset.type \in DOMAIN approximateRates[TableRegion(asset)] THEN asset.type
  ELSE IF asset.issuer_type = "corporate" THEN "corporateBond"
  ELSE "governmentBond"

TableTerm ==
  IF user.risk_tolerance = "conservative" THEN "short"
  ELSE IF user.risk_tolerance = "moderate" THEN "medium" ELSE "long"

QuotesTableRate(k) ==
  LET suggestions == ItemsOfKind(OfCategory("rollover")[k], "consider")
  IN /\ Len(suggestions) = 1
     /\ suggestions[1].rate =
          approximateRates[TableRegion(SoonAssets[k])][TableType(SoonAssets[k])][TableTerm]

\* C12: for a soon-maturing asset whose market value does not cover its
\* needs (or that has none), the rollover recommendation contains one
\* replacement suggestion quoting the table entry at (R, T, K): K the term of
\* the risk tolerance, R the asset's region if the table has it and global
\* otherwise, T the asset's own type whenever the table has it and only
\* otherwise the issuer-type bucket.
C12_ReplacementQuotesTableRate ==
  Returned =>
    \A k \in 1..Len(SoonAssets) :
      Uncovered(SoonAssets[k])
        => (k <= Len(OfCategory("rollover")) /\ QuotesTableRate(k))

\* the same statement for the assets whose type name holds neither 'Bond'
\* nor 'treasury', or is governmentBond or treasuryBill
ReplacementQuotesTableRateForPlainTypes ==
  Returned =>
    \A k \in 1..Len(SoonAssets) :
      (/\ Uncovered(SoonAssets[k])
       /\ \/ ~(IncludesBond(SoonAssets[k].type) \/ IncludesTreasury(SoonAssets[k].type))
          \/ SoonAssets[k].type \in {"governmentBond", "treasuryBill"})
        => (k <= Len(OfCategory("rollover")) /\ QuotesTableRate(k))

HomeRegion == OrDefault(user.country, "eurozone")

CrossRegionItems(k) == ItemsOfKind(OfCategory("rollover")[k], "crossRegion")

\* C13 (as claimed): for every soon-maturing asset whose region differs from
\* the user's home region, with a moderate or aggressive risk tolerance the
\* rollover recommendation contains exactly one cross-region suggestion; with
\* a conservative one or equal regions it contains none.
C13_CrossRegionForEverySoonAsset ==
  Returned =>
    \A k \in 1..Len(SoonAssets) :
      /\ k <= Len(OfCategory("rollover"))
      /\ Len(CrossRegionItems(k)) =
           (IF /\ SoonAssets[k].region # HomeRegion
               /\ user.risk_tolerance \in {"moderate", "aggressive"}
            THEN 1 ELSE 0)

\* C13 (amended): the cross-region suggestion belongs to the replacement
\* branch: a soon-maturing asset whose market value does not cover its needs
\* (or that has none) gets exactly one when its region differs from the
\* user's home region and the risk tolerance is moderate or aggressive; in
\* every other case, the covered branch included, it gets none.
C13_CrossRegionInReplacementBranch ==
  Returned =>
    \A k \in 1..Len(SoonAssets) :
      /\ k <= Len(OfCategory("rollover"))
      /\ Len(CrossRegionItems(k)) =
           (IF /\ Uncovered(SoonAssets[k])
               /\ SoonAssets[k].region # HomeRegion
               /\ user.risk_tolerance \in {"moderate", "aggressive"}
            THEN 1 ELSE 0)

\* a moderate investor at home in the uk, a eurozone bond maturing soon and
\* no events: one cross-region suggestion, for the eurozone
C13_Witness ==
  /\ Returned /\ user.risk_tolerance = "moderate" /\ user.country = "uk"
  /\ events = <<>>
  /\ Len(assets) = 1 /\ assets[1].name = "Bund"
  /\ Len(OfCategory("rollover")) = 1
  /\ Len(CrossRegionItems(1)) = 1
  /\ CrossRegionItems(1)[1].region = "eurozone"

----------------------------------------------------------------------------
(* Properties of the laddering gate *)

NonPerpetualCount ==
  Cardinality({i \in 1..Len(assets) : assets[i].type # "perpetualBond"})

\* C14: the laddering analysis runs only when at least 3 non-perpetual assets
\* exist: a portfolio with fewer than 3 non-perpetual assets, whatever the
\* number of perpetual bonds it also holds, gets no laddering recommendation.
C14_LadderingNeedsThreeNonPerpetual ==
  (Returned /\ NonPerpetualCount < 3) => OfCategory("laddering") = <<>>

\* what the gate does instead: no laddering recommendation for fewer than 3
\* assets of any type
LadderingNeedsThreeAssets ==
  (Returned /\ Len(assets) < 3) => OfCategory("laddering") = <<>>

----------------------------------------------------------------------------
(* Early sale: the inputs *)

\* the two outcomes a runtime may give new Date("MMM yyyy-01")
DateParsers == {"lenient", "strict"}

SaleAssets ==
  << Asset("Oct100", "CD", "financial", DateStr(2025, 10, 5),
           100, 100, NoPrice, 3, "EUR", "eurozone"),
     Asset("GiltSep", "gilts", "government", DateStr(2025, 9, 10),
           500, 500, NoPrice, 4, "GBP", "uk"),
     Asset("Consol", "perpetualBond", "government", NullDate,
           100, 100, NoPrice, 3, "EUR", "eurozone"),
     Asset("Later", "corporateBond", "corporate", DateStr(2026, 6, 30),
           100, 100, Price(90), 5, "EUR", "us"),
     Asset("Dear", "corporateBond", "corporate", DateStr(2026, 9, 30),
           100, 100, Price(110), 5, "EUR", "eurozone") >>

SaleEvents ==
  << Event(1000, "EUR", DateStr(2025, 9, 15)),
     Event(100, "GBP", DateStr(2025, 9, 20)),
     Event(50, "EUR", DateStr(2025, 8, 31)) >>

InitSale ==
  InitEngine(LiquidityUsers, SaleAssets, SaleEvents, LiquidityClocks, DateParsers)

SpecSale == InitSale /\ [][NextEngine]_vars

----------------------------------------------------------------------------
(* Properties of the sale candidates *)

PreferredCurrency == OrDefault(user.currency, "EUR")

\* the liquidity recommendation reports critical months
ReportsCriticalMonths ==
  /\ Returned
  /\ Len(OfCategory("liquidity")) = 1
  /\ HasItem(OfCategory("liquidity")[1], "criticalGaps")

EarliestCriticalMonth == ItemOf(OfCategory("liquidity")[1], "criticalGaps").months[1]

\* a perpetual bond, or an asset in the preferred currency maturing after the
\* first instant of the month
IsSaleCandidate(asset, month) ==
  \/ asset.type = "perpetualBond"
  \/ /\ asset.currency = PreferredCurrency
     /\ NewDate(asset.maturity_date).ok
     /\ getTime(NewDate(asset.maturity_date)) > getTime(DateOf(month.year, month.mon, 1, 0))

CandidateValue ==
  SumSeq([i \in 1..Len(assets) |->
            IF IsSaleCandidate(assets[i], EarliestCriticalMonth)
            THEN getMarketValue(assets[i]) ELSE 0])

ReportsCandidateValue ==
  IF CandidateValue > 0
  THEN /\ HasItem(OfCategory("liquidity")[1], "sellable")
       /\ ItemOf(OfCategory("liquidity")[1], "sellable").value =
            formatCurrency(CandidateValue, PreferredCurrency)
  ELSE ~HasItem(OfCategory("liquidity")[1], "sellable")

\* C15: when a critical shortfall month exists the candidates for early sale
\* are exactly every perpetual bond plus every non-perpetual asset in the
\* preferred currency maturing after the earliest critical month, and the
\* reported total sellable value is the sum of their market values.
C15_SaleCandidates == ReportsCriticalMonths => ReportsCandidateValue

\* the same statement where the runtime parses the month label
SaleCandidatesWhenLabelParses ==
  (ReportsCriticalMonths /\ runtime = "lenient") => ReportsCandidateValue

----------------------------------------------------------------------------
(* Properties of the critical months *)

\* sum of maturities - needs over the months up to and including month i
CumulativeAt(months, i) ==
  SumSeq([j \in 1..i |-> months[j].maturities - months[j].needs])

IsShortfallMonth(month) == month.needs > 0 /\ month.maturities < month.needs

\* the shortfall strictly exceeds a fifth of the needs
ExceedsFifthOfNeeds(month) == 5 * (month.needs - month.maturities) > month.needs

CriticalIndices(months) ==
  SelectSeq([i \in 1..24 |-> i],
            LAMBDA i : /\ IsShortfallMonth(months[i])
                       /\ ExceedsFifthOfNeeds(months[i])
                       /\ CumulativeAt(months, i) < 0)

CriticalLabels(months) ==
  LET at == CriticalIndices(months)
  IN [k \in 1..Len(at) |-> MonthLabel(months[at[k]].date)]

ReportedCriticalMonths ==
  IF Len(OfCategory("liquidity")) = 1 /\ HasItem(OfCategory("liquidity")[1], "criticalGaps")
  THEN ItemOf(OfCategory("liquidity")[1], "criticalGaps").months
  ELSE <<>>

\* C16: a shortfall month is critical exactly when its shortfall strictly
\* exceeds 20% of its needs and the cumulative position up to and including
\* it is strictly negative: the months reported as critical are exactly
\* these shortfall months, in chronological order.
C16_CriticalMonths ==
  (Returned /\ Len(events) > 0) =>
    ReportedCriticalMonths = CriticalLabels(HorizonMonths)

\* 500 matures in September and 100 is needed in October: October is a
\* shortfall of the whole need, yet the position stays at +400 and no month
\* is critical
C16_Witness ==
  /\ Returned
  /\ Len(assets) = 1 /\ assets[1].name = "Sep500"
  /\ events = <<Event(100, "EUR", DateStr(2025, 10, 10))>>
  /\ user.currency = "EUR"
  /\ Len(OfCategory("liquidity")) = 1
  /\ HasItem(OfCategory("liquidity")[1], "upcomingGaps")
  /\ ~HasItem(OfCategory("liquidity")[1], "criticalGaps")

\* 100 matures in October against needs of 100 + 25: a shortfall of exactly
\* a fifth of the needs with a negative position, not critical
CriticalBoundaryReached ==
  /\ Returned
  /\ Len(assets) = 1 /\ assets[1].name = "Oct100"
  /\ events = <<Event(100, "EUR", DateStr(2025, 10, 10)),
               Event(25, "EUR", DateStr(2025, 10, 20))>>
  /\ user.currency = "EUR"
  /\ HasItem(OfCategory("liquidity")[1], "upcomingGaps")
  /\ ~HasItem(OfCategory("liquidity")[1], "criticalGaps")

\* a month is reported critical somewhere
SomeCriticalMonthReached == Returned /\ ReportedCriticalMonths # <<>>

----------------------------------------------------------------------------
(* Properties of the monthly buckets *)

\* the month number in the horizon of a date not before the current instant
\* (0 is the current month), -1 for any other date
MonthNumber(field) ==
  IF NewDate(field).ok /\ ~DateLt(NewDate(field), today)
  THEN MonthKey(NewDate(field)) - MonthKey(today)
  ELSE -1

RECURSIVE MonthNumbers(_)
MonthNumbers(fields) ==
  IF fields = <<>> THEN <<>>
  ELSE <<MonthNumber(Head(fields))>> \o MonthNumbers(Tail(fields))

EventMonths == MonthNumbers([j \in 1..Len(events) |-> events[j].date])

MaturityMonths == MonthNumbers([j \in 1..Len(assets) |-> assets[j].maturity_date])

NeedsOfMonth(eventMonths, i) ==
  SumSeq([j \in 1..Len(events) |->
            IF events[j].currency = PreferredCurrency /\ eventMonths[j] = i
            THEN events[j].amount ELSE 0])

MaturitiesOfMonth(maturityMonths, i) ==
  SumSeq([j \in 1..Len(assets) |->
            IF /\ assets[j].type # "perpetualBond"
               /\ assets[j].currency = PreferredCurrency
               /\ maturityMonths[j] = i
            THEN assets[j].face_value ELSE 0])

\* the table holds, month by month, the sums over the events and assets
TableHolds(months, eventMonths, maturityMonths) ==
  /\ Len(months) = 24
  /\ \A i \in 0..23 :
       /\ MonthKey(months[i + 1].date) = MonthKey(today) + i
       /\ months[i + 1].needs = NeedsOfMonth(eventMonths, i)
       /\ months[i + 1].maturities = MaturitiesOfMonth(maturityMonths, i)

\* C17: the liquidity analysis runs only when an event exists; its table has
\* 24 consecutive months starting with the current one, the needs of a month
\* are the sum of the amounts of the events of that month, not before the
\* current instant, in the preferred currency, and its maturities the sum of
\* the face values of the non-perpetual assets maturing in that month, not
\* before the current instant, in that currency; nothing else is counted.
C17_MonthlyBuckets ==
  Returned =>
    IF Len(events) = 0 THEN OfCategory("liquidity") = <<>>
    ELSE TableHolds(HorizonMonths, EventMonths, MaturityMonths)

\* a bond of face value 100 priced at 90 matures in June 2026, the eleventh
\* month of the horizon, next to a perpetual bond, a gilt in pounds and an
\* event beyond the horizon: the month holds the face value
C17_Witness ==
  /\ Returned
  /\ user.currency = "EUR"
  /\ Len(assets) = 3
  /\ assets[1].name = "GiltSep" /\ assets[2].name = "Consol" /\ assets[3].name = "Later"
  /\ events = <<Event(1000, "EUR", DateStr(2025, 9, 15)),
               Event(50, "EUR", DateStr(2027, 8, 1))>>
  /\ HorizonMonths[11].maturities = 100
  /\ HorizonMonths[2].needs = 1000
  /\ \A i \in 1..24 : i # 11 => HorizonMonths[i].maturities = 0
  /\ \A i \in 1..24 : i # 2 => HorizonMonths[i].needs = 0

\* an event dated on the current day, seen later that day, is before the
\* current instant and counted nowhere
SameDayEventSkipped ==
  /\ Returned
  /\ today = Clock(TicksPerDay - 1)
  /\ user.currency = "EUR"
  /\ events = <<Event(50, "EUR", DateStr(2025, 8, 31))>>
  /\ \A i \in 1..24 : HorizonMonths[i].needs = 0

----------------------------------------------------------------------------
(* Properties of the allocation check *)

RangeOf(group) == idealDistribution(user.risk_tolerance)[group]

\* the share 100 x value / total of a group is below its minimum, above its
\* maximum; a portfolio of total value zero has no shares
BelowMin(group) ==
  TotalValue > 0 /\ 100 * ValueIn(group) < RangeOf(group)[1] * TotalValue

AboveMax(group) ==
  TotalValue > 0 /\ 100 * ValueIn(group) > RangeOf(group)[2] * TotalValue

OutOfRange(group) == BelowMin(group) \/ AboveMax(group)

\* the entries of a recommendation about one group
EntriesAbout(rec, group) ==
  SelectSeq(rec.actionItems, LAMBDA item : item.group = group)

\* one entry per group out of range, of the right kind, and no other entry
ListsImbalances(rec) ==
  \A group \in Groups :
    IF OutOfRange(group)
    THEN /\ Len(EntriesAbout(rec, group)) = 1
         /\ EntriesAbout(rec, group)[1].kind =
              (IF BelowMin(group) THEN "increase" ELSE "reduce")
    ELSE EntriesAbout(rec, group) = <<>>

AllocationChecked ==
  IF Len(assets) >= 2 /\ \E group \in Groups : OutOfRange(group)
  THEN /\ Len(OfCategory("diversification")) = 1
       /\ ListsImbalances(OfCategory("diversification")[1])
  ELSE OfCategory("diversification") = <<>>

\* C18: a single diversification recommendation is emitted exactly when the
\* portfolio has at least 2 assets and some group's share of the total market
\* value is outside its range for the user's risk tolerance; it holds one
\* entry per group out of range, increase below the minimum and reduce above
\* the maximum, and none for a group within its range, bounds included.
C18_DiversificationIffOutOfRange == Returned => AllocationChecked

\* the same statement for portfolios of positive total value
DiversificationIffOutOfRangeWhenValued ==
  (Returned /\ TotalValue > 0) => AllocationChecked

\* a moderate investor holding 30 in municipal bonds out of 100: municipal
\* stands exactly at its maximum of 30% and has no entry
RangeBoundaryReached ==
  /\ Returned /\ user.risk_tolerance = "moderate"
  /\ Len(assets) = 2 /\ assets[1].name = "Corp2" /\ assets[2].name = "Muni2"
  /\ Len(OfCategory("diversification")) = 1
  /\ EntriesAbout(OfCategory("diversification")[1], "municipal") = <<>>
  /\ EntriesAbout(OfCategory("diversification")[1], "corporate")[1].kind = "reduce"

----------------------------------------------------------------------------
(* Properties of the concentration checks *)

RegionsHeld == {assets[i].region : i \in 1..Len(assets)}

CurrenciesHeld == {assets[i].currency : i \in 1..Len(assets)}

ValueInRegion(region) ==
  SumSeq([i \in 1..Len(assets) |->
            IF assets[i].region = region THEN getMarketValue(assets[i]) ELSE 0])

ValueInCurrency(currency) ==
  SumSeq([i \in 1..Len(assets) |->
            IF assets[i].currency = currency THEN getMarketValue(assets[i]) ELSE 0])

\* some region's share 100 x value / total strictly exceeds 70
RegionAboveSeventy ==
  TotalValue > 0 /\ \E region \in RegionsHeld : 100 * ValueInRegion(region) > 70 * TotalValue

\* some currency's share strictly exceeds 80
CurrencyAboveEighty ==
  TotalValue > 0
  /\ \E currency \in CurrenciesHeld : 100 * ValueInCurrency(currency) > 80 * TotalValue

\* C19: a regional recommendation is emitted exactly when the portfolio has
\* at least 2 assets and the largest region share of the total market value
\* strictly exceeds 70%, a currency recommendation exactly when it has at
\* least 2 assets and the largest currency share strictly exceeds 80%; there
\* is at most one of each.
C19_ConcentrationThresholds ==
  Returned =>
    /\ Len(OfCategory("regional")) =
         (IF Len(assets) >= 2 /\ RegionAboveSeventy THEN 1 ELSE 0)
    /\ Len(OfCategory("currency")) =
         (IF Len(assets) >= 2 /\ CurrencyAboveEighty THEN 1 ELSE 0)

\* 70 in the UK in pounds and 30 in the US in dollars: the largest region
\* share is exactly 70% and nothing is emitted
C19_Witness ==
  /\ Returned
  /\ Len(assets) = 2 /\ assets[1].name = "Corp2" /\ assets[2].name = "Muni2"
  /\ 100 * ValueInRegion("uk") = 70 * TotalValue
  /\ OfCategory("regional") = <<>>
  /\ OfCategory("currency") = <<>>

\* 200 of 250 in euros in the eurozone: the currency share is exactly 80% and
\* no currency recommendation is emitted, the region share of 80% is reported
CurrencyBoundaryReached ==
  /\ Returned
  /\ Len(assets) = 3
  /\ assets[1].name = "Gov1" /\ assets[2].name = "Gov2" /\ assets[3].name = "Corp1"
  /\ 100 * ValueInCurrency("EUR") = 80 * TotalValue
  /\ OfCategory("currency") = <<>>
  /\ Len(OfCategory("regional")) = 1

\* a single asset, 100% of its region and currency, triggers neither
SingleAssetReached ==
  /\ Returned /\ Len(assets) = 1 /\ TotalValue > 0
  /\ OfCategory("regional") = <<>> /\ OfCategory("currency") = <<>>

\* both recommendations emitted
BothConcentrationsReached ==
  Returned /\ Len(OfCategory("regional")) = 1 /\ Len(OfCategory("currency")) = 1

----------------------------------------------------------------------------
(* Properties of the concentration suggestions *)

\* C20: every regional recommendation holds a suggestion naming alternate
\* regions besides the numeric concentration item, whichever region is
\* dominant, and every currency recommendation a suggestion naming alternate
\* currencies besides the numeric concentration item.
C20_AlternativesAlwaysNamed ==
  Returned =>
    /\ \A k \in 1..Len(OfCategory("regional")) :
         /\ HasItem(OfCategory("regional")[k], "addRegions")
         /\ HasItem(OfCategory("regional")[k], "represents")
    /\ \A k \in 1..Len(OfCategory("currency")) :
         /\ HasItem(OfCategory("currency")[k], "addCurrencies")
         /\ HasItem(OfCategory("currency")[k], "represents")

\* the numeric item is always there, and the alternatives are named exactly
\* for the regions eurozone, uk, us and the currencies EUR, GBP, USD
AlternativesNamedForMainMarkets ==
  Returned =>
    /\ \A k \in 1..Len(OfCategory("regional")) :
         /\ HasItem(OfCategory("regional")[k], "represents")
         /\ HasItem(OfCategory("regional")[k], "addRegions") <=>
              ItemOf(OfCategory("regional")[k], "represents").key \in {"eurozone", "uk", "us"}
    /\ \A k \in 1..Len(OfCategory("currency")) :
         /\ HasItem(OfCategory("currency")[k], "represents")
         /\ HasItem(OfCategory("currency")[k], "addCurrencies") <=>
              ItemOf(OfCategory("currency")[k], "represents").key \in {"EUR", "GBP", "USD"}

----------------------------------------------------------------------------
(* Properties of the liquidity recommendation *)

SomeMonthIs(months, class) == \E i \in 1..24 : ClassOf(months[i]) = class

SomeMonthHasNeeds(months) == \E i \in 1..24 : months[i].needs > 0

TitleOf(rec) == rec.title.text

\* C21: at most one liquidity recommendation is emitted: 'Liquidity Risk
\* Management' exactly when a shortfall month exists, 'Reinvestment
\* Opportunities' exactly when no shortfall month but a surplus month exists,
\* none otherwise; the ladder adjustment item appears exactly when both a
\* shortfall month and a surplus month exist.
C21_OneLiquidityRecommendation ==
  Returned =>
    LET liquidity == OfCategory("liquidity")
        shortfall == Len(events) > 0 /\ SomeMonthIs(HorizonMonths, "shortfall")
        surplus == Len(events) > 0 /\ SomeMonthIs(HorizonMonths, "surplus")
    IN /\ Len(liquidity) <= 1
       /\ (Len(liquidity) = 1 /\ TitleOf(liquidity[1]) = "Liquidity Risk Management")
            <=> shortfall
       /\ (Len(liquidity) = 1 /\ TitleOf(liquidity[1]) = "Reinvestment Opportunities")
            <=> (~shortfall /\ surplus)
       /\ (Len(liquidity) = 1 /\ HasItem(liquidity[1], "adjustLadder"))
            <=> (shortfall /\ surplus)

\* 1000 needed in September with nothing maturing and 100 needed in October
\* with 151 maturing: a shortfall and a surplus, one recommendation with the
\* ladder adjustment
C21_Witness ==
  /\ Returned
  /\ user.currency = "EUR"
  /\ Len(assets) = 1 /\ assets[1].name = "Oct151"
  /\ events = <<Event(1000, "EUR", DateStr(2025, 9, 15)),
               Event(100, "EUR", DateStr(2025, 10, 10))>>
  /\ Len(OfCategory("liquidity")) = 1
  /\ TitleOf(OfCategory("liquidity")[1]) = "Liquidity Risk Management"
  /\ HasItem(OfCategory("liquidity")[1], "adjustLadder")

\* a surplus month and no shortfall month: the reinvestment recommendation
ReinvestmentReached ==
  /\ Returned
  /\ Len(OfCategory("liquidity")) = 1
  /\ TitleOf(OfCategory("liquidity")[1]) = "Reinvestment Opportunities"

\* events exist, yet no month is a shortfall or a surplus: nothing is emitted
QuietHorizonReached ==
  /\ Returned /\ Len(events) > 0 /\ Len(assets) > 0
  /\ SomeMonthHasNeeds(HorizonMonths)
  /\ OfCategory("liquidity") = <<>>

----------------------------------------------------------------------------
(* Properties of the sale suggestion *)

\* the assets the function takes as sale candidates in this state
SaleCandidates ==
  assetsAvailableForSale(user, assets, ReportedCriticalMonths, runtime)

\* market value / face value - 1 of asset a is below that of asset b, for
\* positive face values
LowerPremium(a, b) ==
  getMarketValue(a) * b.face_value < getMarketValue(b) * a.face_value

SuggestsSale ==
  /\ Returned
  /\ Len(OfCategory("liquidity")) = 1
  /\ HasItem(OfCategory("liquidity")[1], "sell")

SaleItem == ItemOf(OfCategory("liquidity")[1], "sell")

\* C22: when a sale is suggested, the asset named is a sale candidate whose
\* premium ratio market value / face value - 1 is minimal among the
\* candidates, and it is labelled a discount when the ratio is negative and a
\* premium otherwise (face values are positive).
C22_SellsLowestPremium ==
  SuggestsSale =>
    \E k \in 1..Len(SaleCandidates) :
      LET chosen == SaleCandidates[k]
      IN /\ SaleItem.name = chosen.name
         /\ SaleItem.value = formatCurrency(getMarketValue(chosen), PreferredCurrency)
         /\ \A j \in 1..Len(SaleCandidates) : ~LowerPremium(SaleCandidates[j], chosen)
         /\ SaleItem.label =
              (IF getMarketValue(chosen) < chosen.face_value
               THEN "discount" ELSE "premium")

\* a perpetual bond at par, a bond at 90 and a bond at 110 are candidates:
\* the bond at 90 is named, at a discount
C22_Witness ==
  /\ SuggestsSale
  /\ Len(assets) = 3
  /\ assets[1].name = "Consol" /\ assets[2].name = "Later" /\ assets[3].name = "Dear"
  /\ Len(SaleCandidates) = 3
  /\ SaleItem.name = "Later"
  /\ SaleItem.label = "discount"

\* the only candidate stands at par: it is named, at a premium
SaleAtParReached ==
  /\ SuggestsSale
  /\ Len(SaleCandidates) = 1 /\ SaleCandidates[1].name = "Consol"
  /\ SaleItem.name = "Consol" /\ SaleItem.label = "premium"

----------------------------------------------------------------------------
(* Ladder years: the inputs *)

\* one maturity in each year from 2025 to 2031, two more in 2027, a perpetual
\* bond carrying a 2026 date and an asset without a date
LadderYearAssets ==
  << Bond("G25", "treasuryBill", DateStr(2025, 12, 31)),
     Bond("G26", "governmentBond", DateStr(2026, 6, 30)),
     Bond("G27", "bunds", DateStr(2027, 1, 15)),
     Bond("G28", "OATs", DateStr(2028, 2, 29)),
     Bond("G29", "BTPs", DateStr(2029, 9, 1)),
     Bond("G30", "governmentBond", DateStr(2030, 1, 1)),
     Bond("G31", "governmentBond", DateStr(2031, 1, 1)),
     Bond("Twin27", "treasuryNote", DateStr(2027, 6, 30)),
     Bond("Third27", "corporateBond", DateStr(2027, 12, 31)),
     Bond("Consol26", "perpetualBond", DateStr(2026, 3, 1)),
     Bond("Undated", "governmentBond", NullDate) >>

InitLadderYears ==
  InitWith(LadderingUsers,
           {Records(l) : l \in Sublists(LadderYearAssets, MaxLadderAssets)},
           {Records(l) : l \in Sublists(LadderingEvents, MaxEvents)},
           {Clock(0)}, {"lenient"})

SpecLadderYears == InitLadderYears /\ [][NextEngine]_vars

----------------------------------------------------------------------------
(* Properties of the missing years *)

\* the years from the current year through the current year + 5 in which no
\* non-perpetual asset matures, in ascending order
YearsWithoutMaturity ==
  SelectSeq([i \in 1..6 |-> today.y + i - 1], LAMBDA year : HeldIn(year) = 0)

\* the years of the 'add securities maturing in' items, in order
YearsSuggested ==
  IF Len(OfCategory("laddering")) = 0 THEN <<>>
  ELSE LET items == ItemsOfKind(OfCategory("laddering")[1], "addYear")
       IN [k \in 1..Len(items) |-> items[k].year]

FirstYears(years) == SubSeq(years, 1, IF Len(years) < 3 THEN Len(years) ELSE 3)

\* C23: in the laddering analysis the missing years are exactly the years
\* from the current year through the current year + 5 in which no
\* non-perpetual asset matures, and the recommendation holds one 'add
\* securities maturing in Y' item for each of the first min(3, k) of the k
\* missing years, in ascending order, and none for the later ones.
C23_FirstMissingYearsSuggested ==
  (Returned /\ Len(assets) >= 3) =>
    /\ Len(OfCategory("laddering")) <= 1
    /\ YearsSuggested = FirstYears(YearsWithoutMaturity)

\* maturities in 2025, 2026, 2027 and 2028: the two missing years 2029 and
\* 2030 are both suggested
C23_Witness ==
  /\ Returned
  /\ Len(assets) = 4
  /\ assets[1].name = "G25" /\ assets[2].name = "G26"
  /\ assets[3].name = "G27" /\ assets[4].name = "G28"
  /\ YearsSuggested = <<2029, 2030>>

\* five missing years: only the first three are suggested
LaterYearsLeftOutReached ==
  /\ Returned /\ Len(assets) >= 3
  /\ Len(YearsWithoutMaturity) = 5
  /\ Len(YearsSuggested) = 3

\* a maturity in each of the six years: no year is missing and there is no
\* recommendation
LadderCompleteReached ==
  /\ Returned /\ Len(assets) = 6
  /\ YearsWithoutMaturity = <<>>
  /\ OfCategory("laddering") = <<>>

----------------------------------------------------------------------------
(* Properties of small ladders *)

LadderWindow == today.y .. today.y + 5

\* a small portfolio has its recommendation, and a missing one means a full
\* ladder without a crowded year
SmallLaddersAdvised ==
  /\ Len(assets) \in 3..5 => Len(OfCategory("laddering")) = 1
  /\ (Len(assets) >= 3 /\ OfCategory("laddering") = <<>>)
       => /\ \A year \in LadderWindow : HeldIn(year) >= 1
          /\ \A year \in CalendarYears : HeldIn(year) < 3

\* C26: a portfolio of 3, 4 or 5 assets always gets a laddering
\* recommendation, whatever the maturity dates are, and with at least 3
\* assets there is none only if each of the six years from the current year
\* on has a maturing non-perpetual asset and no year holds 3 or more.
C26_SmallLaddersAlwaysAdvised == (Done /\ user # NoUser) => SmallLaddersAdvised

\* the same statement for the invocations that return
SmallLaddersAdvisedWhenReturned == Returned => SmallLaddersAdvised

\* maturities in 2025 to 2029: five assets, the year 2030 is missing and is
\* suggested
FiveYearLadderReached ==
  /\ Returned
  /\ Len(assets) = 5
  /\ \A year \in today.y .. today.y + 4 : HeldIn(year) = 1
  /\ Len(OfCategory("laddering")) = 1
  /\ YearsSuggested = <<2030>>

\* three assets in three years
ThreeAssetLadderReached ==
  /\ Returned /\ Len(assets) = 3
  /\ \A year \in CalendarYears : HeldIn(year) = 1
  /\ Len(OfCategory("laddering")) = 1

----------------------------------------------------------------------------
(* Properties of the yield analysis *)

\* sum over the assets of calculateYTM x market value
YieldTimesValue ==
  FSum([i \in 1..Len(assets) |->
          FMul(calculateYTM(assets[i], today), Num(getMarketValue(assets[i])))])

\* the market-value-weighted average yield is strictly below the threshold,
\* in percent
AverageYieldBelow(threshold) ==
  TotalValue > 0 /\ FLt(YieldTimesValue, Num(threshold * TotalValue))

\* the threshold of the user's region, 0 where the region has none
YieldThreshold ==
  IF HomeRegion = "eurozone" THEN 3 ELSE IF HomeRegion = "uk" THEN 4 ELSE 0

\* C24: a yield recommendation is emitted exactly when the portfolio has at
\* least 3 assets and the market-value-weighted average of calculateYTM is
\* strictly below the threshold of the user's region, 3.0% for the eurozone
\* and 4.0% for the UK; a user of another region never gets one.
C24_YieldBelowRegionalThreshold ==
  Returned =>
    Len(OfCategory("yield")) =
      (IF /\ Len(assets) >= 3
          /\ HomeRegion \in {"eurozone", "uk"}
          /\ AverageYieldBelow(YieldThreshold)
       THEN 1 ELSE 0)

\* yields of 4, 3 and 5 on values of 50, 100 and 100 average exactly 4.0: a
\* UK user gets no yield recommendation
C24_Witness ==
  /\ Returned /\ HomeRegion = "uk"
  /\ Len(assets) = 3
  /\ assets[1].name = "Gov2" /\ assets[2].name = "Corp1" /\ assets[3].name = "Muni1"
  /\ YieldTimesValue = Num(4 * TotalValue)
  /\ OfCategory("yield") = <<>>

\* a yield recommendation for the eurozone and for the UK
EurozoneYieldReached ==
  Returned /\ HomeRegion = "eurozone" /\ Len(OfCategory("yield")) = 1

UkYieldReached ==
  Returned /\ HomeRegion = "uk" /\ Len(OfCategory("yield")) = 1

\* a US user with an average yield below 3.0 and no recommendation
OtherRegionLowYieldReached ==
  /\ Returned /\ HomeRegion = "us" /\ Len(assets) >= 3
  /\ AverageYieldBelow(3)
  /\ OfCategory("yield") = <<>>

\* an average yield between 3.0 and 4.0: nothing for the eurozone
EurozoneAboveThresholdReached ==
  /\ Returned /\ HomeRegion = "eurozone" /\ Len(assets) >= 3
  /\ AverageYieldBelow(4) /\ ~AverageYieldBelow(3)
  /\ OfCategory("yield") = <<>>

----------------------------------------------------------------------------
(* Quoted rates: the inputs *)

IssuerTypes == {"government", "corporate", "municipal", "financial", "other"}

RegionCodes == {"eurozone", "uk", "us", "emea", "apac", "latam", "global"}

\* one asset maturing in 45 days, of every type, issuer type and region
RateAssets ==
  {Asset("Maturing", type, issuer_type, DateStr(2025, 10, 15),
         100, 100, NoPrice, 3, "EUR", region) :
     type \in AssetTypes, issuer_type \in IssuerTypes, region \in RegionCodes}

RateUsers ==
  {User(risk_tolerance, "EUR", country) :
     risk_tolerance \in RiskTolerances, country \in {"", "eurozone", "uk", "us"}}

InitRates ==
  InitWith(RateUsers, {<<asset>> : asset \in RateAssets}, {<<>>}, {Clock(0)},
           {"lenient"})

SpecRates == InitRates /\ [][NextEngine]_vars

----------------------------------------------------------------------------
(* Properties of the quoted rates *)

QuotesARate(item) == item.kind \in {"consider", "crossRegion"}

RateItems(rec) == SelectSeq(rec.actionItems, QuotesARate)

\* C25: every replacement-instrument or cross-region suggestion in a rollover
\* recommendation quotes a strictly positive approximate rate, for every
\* asset type, region, issuer type and risk tolerance.
C25_RatesStrictlyPositive ==
  Returned =>
    \A k \in 1..Len(OfCategory("rollover")) :
      \A j \in 1..Len(RateItems(OfCategory("rollover")[k])) :
        RateItems(OfCategory("rollover")[k])[j].rate > 0

\* the same statement with the medium- and long-term money market
\* replacements left out: the only entries of the table that are 0
RatesPositiveExceptLongerMoneyMarket ==
  Returned =>
    \A k \in 1..Len(OfCategory("rollover")) :
      \A j \in 1..Len(RateItems(OfCategory("rollover")[k])) :
        LET item == RateItems(OfCategory("rollover")[k])[j]
        IN \/ item.rate > 0
           \/ /\ item.kind = "consider" /\ item.type = "moneyMarket"
              /\ item.term \in {"medium", "long"} /\ item.rate = 0

\* a money market asset of a moderate investor: the replacement quotes 0
ZeroRateReached ==
  /\ Returned /\ user.risk_tolerance = "moderate"
  /\ assets[1].type = "moneyMarket"
  /\ Len(OfCategory("rollover")) = 1
  /\ Len(ItemsOfKind(OfCategory("rollover")[1], "consider")) = 1
  /\ ItemsOfKind(OfCategory("rollover")[1], "consider")[1].rate = 0

----------------------------------------------------------------------------
(* Properties of the alternate region *)

\* C27: whenever a rollover recommendation contains a cross-region
\* diversification suggestion, the alternate region it names differs both
\* from the user's home region and from the region of the maturing asset.
C27_AlternateRegionDiffersFromBoth ==
  Returned =>
    \A k \in 1..Len(OfCategory("rollover")) :
      \A j \in 1..Len(CrossRegionItems(k)) :
        /\ CrossRegionItems(k)[j].region # HomeRegion
        /\ CrossRegionItems(k)[j].region # SoonAssets[k].region

\* the alternate region differs from the user's home region, and is the uk
\* for a eurozone investor and the eurozone for every other
AlternateRegionDiffersFromHome ==
  Returned =>
    \A k \in 1..Len(OfCategory("rollover")) :
      \A j \in 1..Len(CrossRegionItems(k)) :
        /\ CrossRegionItems(k)[j].region # HomeRegion
        /\ CrossRegionItems(k)[j].region =
             (IF HomeRegion = "eurozone" THEN "uk" ELSE "eurozone")

\* a eurozone investor with a maturing uk asset is pointed to the uk
AlternateIsAssetRegionReached ==
  /\ Returned /\ HomeRegion = "eurozone"
  /\ Len(OfCategory("rollover")) = 1 /\ SoonAssets[1].region = "uk"
  /\ Len(CrossRegionItems(1)) = 1
  /\ CrossRegionItems(1)[1].region = "uk"

----------------------------------------------------------------------------
(* Properties of the rate lookups *)

FindsExactEntry(lookup) ==
  HasExactEntry(lookup.region, lookup.type, lookup.term, approximateRates)

\* the suggestion names the type looked up and quotes the entry itself
QuotesEntryOf(item, lookup) ==
  /\ FindsExactEntry(lookup)
  /\ item.type = lookup.type
  /\ item.rate = approximateRates[lookup.region][lookup.type][lookup.term]

\* C30: for every asset of the 18 enumerated types, every region code, every
\* issuer type and every risk tolerance, each rate lookup made through
\* getApproximateRate finds an exact (region, type, term) entry in the static
\* table, and the suggestion quotes that entry: neither the global
\* governmentBond fallback nor the fixed defaults are taken.
C30_LookupsFindExactEntry ==
  Returned =>
    \A k \in 1..Len(SoonAssets) :
      Uncovered(SoonAssets[k]) =>
        /\ k <= Len(OfCategory("rollover"))
        /\ Len(RateItems(OfCategory("rollover")[k]))
             = Len(RateLookups(user, SoonAssets[k]))
        /\ \A j \in 1..Len(RateLookups(user, SoonAssets[k])) :
             QuotesEntryOf(RateItems(OfCategory("rollover")[k])[j],
                           RateLookups(user, SoonAssets[k])[j])

\* corporate gilts held in Asia Pacific by an aggressive uk investor: the
\* lookups are (global, corporateBond, long) and (eurozone, corporateBond,
\* long), and both entries are quoted
C30_Witness ==
  /\ Returned /\ user.risk_tolerance = "aggressive" /\ user.country = "uk"
  /\ Len(assets) = 1 /\ assets[1].type = "gilts" /\ assets[1].region = "apac"
  /\ assets[1].issuer_type = "corporate"
  /\ Len(OfCategory("rollover")) = 1
  /\ RateLookups(user, assets[1])
       = <<[region |-> "global", type |-> "corporateBond", term |-> "long"],
           [region |-> "eurozone", type |-> "corporateBond", term |-> "long"]>>
  /\ Len(RateItems(OfCategory("rollover")[1])) = 2
  /\ RateItems(OfCategory("rollover")[1])[1].rate
       = approximateRates["global"]["corporateBond"]["long"]
  /\ RateItems(OfCategory("rollover")[1])[2].rate
       = approximateRates["eurozone"]["corporateBond"]["long"]

----------------------------------------------------------------------------
(* Properties of the order of the list *)

AnalysisCategories ==
  {"diversification", "regional", "currency", "laddering", "liquidity", "yield"}

\* the place of a category in the order of the analyses
CategoryRank(category) ==
  CASE category = "rollover" -> 0
    [] category = "diversification" -> 1
    [] category = "regional" -> 2
    [] category = "currency" -> 3
    [] category = "laddering" -> 4
    [] category = "liquidity" -> 5
    [] category = "yield" -> 6
    [] OTHER -> 7

CategoriesReturned == {recommendations[i].category : i \in 1..Len(recommendations)}

\* C28: the returned list contains at most one recommendation of each of the
\* categories diversification, regional, currency, laddering, liquidity and
\* yield, and its entries appear in this order: the rollover recommendations
\* (in the input order of their assets), then diversification, regional,
\* currency, laddering, liquidity, yield.
C28_OnePerCategoryInOrder ==
  Returned =>
    /\ \A category \in AnalysisCategories : Len(OfCategory(category)) <= 1
    /\ \A i \in 1..Len(recommendations) :
         /\ CategoryRank(recommendations[i].category) <= 6
         /\ \A j \in (i + 1)..Len(recommendations) :
              CategoryRank(recommendations[i].category)
                <= CategoryRank(recommendations[j].category)
    /\ Len(OfCategory("rollover")) = Len(SoonAssets)
    /\ \A k \in 1..Len(SoonAssets) :
         OfCategory("rollover")[k].title.name = SoonAssets[k].name

\* two rollover recommendations in input order followed by a laddering, a
\* liquidity and two more analyses
C28_Witness ==
  /\ Returned
  /\ Len(OfCategory("rollover")) >= 2
  /\ {"laddering", "liquidity"} \subseteq CategoriesReturned
  /\ Cardinality(CategoriesReturned) >= 5

ManyCategoriesReached ==
  /\ Returned /\ Cardinality(CategoriesReturned) >= 5

----------------------------------------------------------------------------
(* The asset form: the inputs *)

MaxInputLen == 2

InputChars == {"1", ".", ","}

\* every string of at most MaxInputLen characters, and four longer ones
TypedValues ==
  UNION {[1..n -> InputChars] : n \in 0..MaxInputLen}
    \cup {<<"2", ",", "5", "0", "0">>, <<"$", "1", "2", "0", "0", ".", "5", "0">>,
          <<"1", ".", "1", ".", "1">>, <<".", " ", ".">>}

CurrencyFields == {"face_value", "purchase_price"}

\* the form after construction, and after handleChange has stored a name and
\* the two dates
FilledFormState ==
  [initialFormState EXCEPT !.name = "Bund",
                           !.purchase_date = DateStr(2025, 1, 15),
                           !.maturity_date = DateStr(2030, 1, 15)]

InitForm ==
  /\ user = NoUser
  /\ assets = <<>>
  /\ events = <<>>
  /\ today = Clock(0)
  /\ runtime = "lenient"
  /\ recommendations = <<>>
  /\ raised = FALSE
  /\ pc = "form"
  /\ fnArg = <<>>
  /\ fnResult = NoResult
  /\ formData \in {initialFormState, FilledFormState}
  /\ formErrors = {}

\* onChange of a currency field: handleCurrencyInput(name, e.target.value)
HandleCurrencyInput ==
  /\ pc = "form"
  /\ \E name \in CurrencyFields, value \in TypedValues :
       /\ fnArg' = value
       /\ fnResult' = [fn |-> "parseInputValue", value |-> parseInputValue(value)]
       /\ formData' = [formData EXCEPT ![name] = parseInputValue(value)]
  /\ UNCHANGED <<user, assets, events, today, runtime, recommendations, raised,
                 pc, formErrors>>

\* validateForm() on submit: the errors are stored, and the form goes on to
\* submission when there are none
ValidateForm ==
  /\ pc = "form"
  /\ formErrors' = validationErrors(formData)
  /\ pc' = IF validationErrors(formData) = {} THEN "submitting" ELSE "form"
  /\ UNCHANGED <<user, assets, events, today, runtime, recommendations, raised,
                 fnArg, fnResult, formData>>

NextForm == HandleCurrencyInput \/ ValidateForm

SpecForm == InitForm /\ [][NextForm]_vars

----------------------------------------------------------------------------
(* Properties of parseInputValue *)

HasDigit(str) == \E i \in 1..Len(str) : str[i] \in Digits

\* the number read after removing every character other than the digits and
\* the last decimal point; 0 when the string holds no digit
NumberOfDigitsAndLastPoint(str) ==
  LET last == lastIndexOfPoint(str)
      whole == SelectSeq(SubSeq(str, 1, IF last = 0 THEN Len(str) ELSE last - 1),
                         LAMBDA c : c \in Digits)
      fraction == SelectSeq(SubSeq(str, IF last = 0 THEN Len(str) + 1 ELSE last + 1,
                                   Len(str)),
                            LAMBDA c : c \in Digits)
  IN IF ~HasDigit(str) THEN Num(0)
     ELSE Fin(DecimalValue(whole \o fraction), PowerOfTen(Len(fraction)))

FiniteNonNegative(x) == x.k = "fin" /\ x.n >= 0

\* C29: parseInputValue returns a finite, non-negative number (never NaN) for
\* every input string: 0 for empty input or input with no parsable digits,
\* and otherwise the number obtained after removing every character other
\* than digits and the last decimal point; so a value typed into a currency
\* field never reaches form validation as NaN.
C29_ParsedInputNeverNaN ==
  /\ fnResult.fn = "parseInputValue" =>
       /\ FiniteNonNegative(fnResult.value)
       /\ fnResult.value = NumberOfDigitsAndLastPoint(fnArg)
  /\ \A name \in CurrencyFields : formData[name] # NaN

\* the same statement for the inputs that hold a digit or at most one point
ParsedInputNeverNaNWithDigitOrOnePoint ==
  (/\ fnResult.fn = "parseInputValue"
   /\ \/ HasDigit(fnArg)
      \/ Len(SelectSeq(fnArg, LAMBDA c : c = ".")) <= 1) =>
     /\ FiniteNonNegative(fnResult.value)
     /\ fnResult.value = NumberOfDigitsAndLastPoint(fnArg)

\* the inputs that give NaN are those with several points and no digit
NaNOnlyForPointsWithoutDigit ==
  fnResult.fn = "parseInputValue" =>
    (fnResult.value = NaN <=>
       (~HasDigit(fnArg) /\ Len(SelectSeq(fnArg, LAMBDA c : c = ".")) > 1))

\* ".." in both currency fields of a filled form: validateForm reports no
\* error and the form is submitted with NaN amounts
NaNPassesValidationReached ==
  /\ pc = "submitting" /\ formErrors = {}
  /\ formData.face_value = NaN /\ formData.purchase_price = NaN

\* "$1200.50" is read as 1200.5
AmountParsedReached ==
  /\ fnResult.fn = "parseInputValue"
  /\ fnArg = <<"$", "1", "2", "0", "0", ".", "5", "0">>
  /\ fnResult.value = Fin(12005, 10)

\* "1.1.1" is read as 11.1
LastPointKeptReached ==
  /\ fnResult.fn = "parseInputValue"
  /\ fnArg = <<"1", ".", "1", ".", "1">>
  /\ fnResult.value = Fin(111, 10)

============================================================================
